---- MODULE Spec2Model ----
(***************************************************************************)
(* A model of the dmi crate: the PNG chunk engine (crc.rs, chunk.rs,       *)
(* iend.rs, ztxt.rs, lib.rs) and the icon assembly (icon.rs).              *)
(*                                                                         *)
(* Files, chunks and manifests are byte strings (sequences over 0..255);   *)
(* every operation of the crate is an operator on them, and the actions    *)
(* below apply the operations to inputs drawn from bounded sets.           *)
(*                                                                         *)
(* Results: a Result<T, DmiError> is a record with tag "Ok" or "Err"; a    *)
(* panic (slice out of range, unwrap of None, arithmetic overflow in a     *)
(* build with overflow checks) is the tag "Panic".                         *)
(***************************************************************************)
EXTENDS Integers, Sequences, FiniteSets, TLC

VARIABLES
    pc,       \* position of the driver: which operation runs next
    build,    \* "debug" (overflow checks on) or "release" (wrapping arithmetic)
    input,    \* the bytes handed to load / load_meta
    raw,      \* result of RawDmi::load(input)
    rawMeta,  \* result of RawDmi::load_meta(input)
    rawOut,   \* result of RawDmi::save on the loaded RawDmi
    icon,     \* result of Icon::load(input), or the Icon value handed to save
    meta,     \* result of Icon::load_meta(input)
    saved,    \* result of Icon::save(icon)
    reMeta,   \* result of Icon::load_meta(saved bytes)
    reIcon,   \* result of Icon::load(saved bytes)
    query,    \* the state, dir and frame handed to IconState::get_image
    got,      \* result of IconState::get_image(query)
    withZtxt, \* the include_ztxt flag handed to RawDmi::save
    rawChunk, \* result of RawGenericChunk::load(input)
    chunkOut, \* result of RawGenericChunk::save on the loaded chunk
    ztxtOut,  \* result of RawZtxtChunk::try_from(rawChunk) followed by its save
    walk      \* the locals of a chunk walker (RawDmi::load, RawDmi::load_meta) in its loop

vars ==
    <<pc, build, input, raw, rawMeta, rawOut, icon, meta, saved, reMeta, reIcon, query, got,
      withZtxt, rawChunk, chunkOut, ztxtOut, walk>>

(***************************************************************************)
(* Results and options                                                     *)
(***************************************************************************)
Ok(v) == [tag |-> "Ok", val |-> v, kind |-> "", msg |-> ""]
Err(k, m) == [tag |-> "Err", val |-> <<>>, kind |-> k, msg |-> m]
Panic(m) == [tag |-> "Panic", val |-> <<>>, kind |-> "panic", msg |-> m]
NotRun == [tag |-> "NotRun", val |-> <<>>, kind |-> "", msg |-> ""]
IsOk(r) == r.tag = "Ok"
IsErr(r) == r.tag = "Err"

None == <<>>
Some(v) == <<v>>
IsSome(o) == o # <<>>
Unwrap(o) == o[1]

\* let v = ...; F(v)
Let(v, F(_)) == F(v)

\* the `?` operator: F on the value of an Ok, anything else is returned as it is
Then(r, F(_)) == IF r.tag = "Ok" THEN F(r.val) ELSE r

(***************************************************************************)
(* Bytes                                                                   *)
(***************************************************************************)
Byte == 0..255

\* bytes[from..to) with 0-based offsets, as a Rust slice
Slice(bytes, from, to) == SubSeq(bytes, from + 1, to)

\* u32::from_be_bytes for values below 2^31 (the first byte below 128)
from_be_bytes(b) == ((b[1] * 256 + b[2]) * 256 + b[3]) * 256 + b[4]

\* u32::to_be_bytes
to_be_bytes(n) == << (n \div 16777216) % 256, (n \div 65536) % 256, (n \div 256) % 256, n % 256 >>

RECURSIVE Concat(_)
Concat(seqs) == IF seqs = <<>> THEN <<>> ELSE Head(seqs) \o Concat(Tail(seqs))

\* evaluates a tabulated function once
Force(f) == IF f = <<>> THEN f ELSE f

(***************************************************************************)
(* crc.rs: CRC-32.  A u32 register is its four big-endian bytes.           *)
(***************************************************************************)
RECURSIVE XorBits(_, _, _)
XorBits(a, b, n) ==
    IF n = 0 THEN 0 ELSE ((a + b) % 2) + 2 * XorBits(a \div 2, b \div 2, n - 1)

XorTable == Force([a \in Byte |-> Force([b \in Byte |-> XorBits(a, b, 8)])])

Xor8(a, b) == XorTable[a][b]

Xor32(u, v) == << Xor8(u[1], v[1]), Xor8(u[2], v[2]), Xor8(u[3], v[3]), Xor8(u[4], v[4]) >>

Shr1(u) ==
    << u[1] \div 2,
       (u[1] % 2) * 128 + u[2] \div 2,
       (u[2] % 2) * 128 + u[3] \div 2,
       (u[3] % 2) * 128 + u[4] \div 2 >>

\* 0xedb8_8320
CRC_POLYNOMIAL == <<237, 184, 131, 32>>

U32_MAX == <<255, 255, 255, 255>>

\* for _ in 0..8 { crc = (if crc & 1 != 0 { CRC_POLYNOMIAL } else { 0 }) ^ (crc >> 1) }
RECURSIVE crc_rounds(_, _)
crc_rounds(crc, n) ==
    IF n = 0 THEN crc
    ELSE crc_rounds(Xor32(IF crc[4] % 2 = 1 THEN CRC_POLYNOMIAL ELSE <<0, 0, 0, 0>>,
                          Shr1(crc)), n - 1)

\* The eight rounds applied to each value of the low byte.  The rounds are
\* linear over xor, so  rounds(crc ^ m) = rounds((crc ^ m) & 0xff) ^ (crc >> 8).
CrcTable == Force([b \in Byte |-> crc_rounds(<<0, 0, 0, b>>, 8)])

update_crc(crc, message) ==
    LET t == CrcTable[Xor8(crc[4], message)]
    IN  << t[1], Xor8(t[2], crc[1]), Xor8(t[3], crc[2]), Xor8(t[4], crc[3]) >>

\* the fold over the buffer, split in halves to keep the evaluation shallow
RECURSIVE crc_fold(_, _, _, _)
crc_fold(crc, buffer, lo, hi) ==
    IF hi <= lo THEN crc
    ELSE IF hi = lo + 1 THEN update_crc(crc, buffer[lo])
    ELSE LET mid == (lo + hi) \div 2
             left == crc_fold(crc, buffer, lo, mid)
         IN  IF left = <<>> THEN left ELSE crc_fold(left, buffer, mid, hi)

\* the u32 result, as its big-endian bytes
calculate_crc(buffer) == Xor32(crc_fold(U32_MAX, buffer, 1, Len(buffer) + 1), U32_MAX)

(***************************************************************************)
(* chunk.rs: RawGenericChunk                                               *)
(***************************************************************************)
IsAsciiLetter(c) == (65 <= c /\ c <= 90) \/ (97 <= c /\ c <= 122)

RawGenericChunk_load(chunk_bytes) ==
    LET chunk_length == Len(chunk_bytes) IN
    IF chunk_length < 12 THEN Err("Generic", "chunk shorter than 12 bytes")
    ELSE
      LET data_length == Slice(chunk_bytes, 0, 4)
          chunk_type == Slice(chunk_bytes, 4, 8)
          data == Slice(chunk_bytes, 8, chunk_length - 4)
          crc == Slice(chunk_bytes, chunk_length - 4, chunk_length)
          recalculated_crc == calculate_crc(chunk_type \o data)
      IN  IF ~(\A i \in 1..4 : IsAsciiLetter(chunk_type[i]))
          THEN Err("Generic", "chunk type contained unlawful characters")
          ELSE IF crc # recalculated_crc
          THEN Err("Generic", "supplied CRC invalid")
          ELSE Ok([data_length |-> data_length, chunk_type |-> chunk_type,
                   data |-> data, crc |-> crc])

\* a save that writes the length of the data in place of the stored field
RawGenericChunk_save_relength(chunk) ==
    to_be_bytes(Len(chunk.data)) \o chunk.chunk_type \o chunk.data \o chunk.crc

\* the bytes written; a Vec writer never writes short
RawGenericChunk_save(chunk) ==
    chunk.data_length \o chunk.chunk_type \o chunk.data \o chunk.crc

(***************************************************************************)
(* iend.rs: RawIendChunk                                                   *)
(***************************************************************************)
IEND_TYPE == <<73, 69, 78, 68>>

RawIendChunk_default ==
    [data_length |-> <<0, 0, 0, 0>>, chunk_type |-> IEND_TYPE, crc |-> <<174, 66, 96, 130>>]

RawIendChunk_try_from(raw_generic_chunk) ==
    IF Len(raw_generic_chunk.data) > 0
    THEN Err("Generic", "IEND with non-empty data")
    ELSE IF raw_generic_chunk.chunk_type # RawIendChunk_default.chunk_type
    THEN Err("Generic", "IEND wrong type")
    ELSE IF raw_generic_chunk.crc # RawIendChunk_default.crc
    THEN Err("Generic", "IEND mismatching CRC")
    ELSE Ok(RawIendChunk_default)

RawIendChunk_save(chunk) == chunk.data_length \o chunk.chunk_type \o chunk.crc

(***************************************************************************)
(* ztxt.rs: RawZtxtData, RawZtxtChunk                                      *)
(***************************************************************************)
ZTXT_TYPE == <<122, 84, 88, 116>>

\* position of the first NUL, or Len + 1
FirstNul(bytes) ==
    IF \E i \in 1..Len(bytes) : bytes[i] = 0
    THEN CHOOSE i \in 1..Len(bytes) : bytes[i] = 0 /\ \A j \in 1..(i - 1) : bytes[j] # 0
    ELSE Len(bytes) + 1

RawZtxtData_load(data_bytes) ==
    LET nul == FirstNul(data_bytes)
        keyword == SubSeq(data_bytes, 1, nul - 1)
    IN  \* take_while consumed the NUL; next() is the compression method
        IF nul + 1 > Len(data_bytes)
        THEN Err("Generic", "zTXt data ends before the compression method")
        ELSE Ok([keyword |-> keyword, null_separator |-> 0,
                 compression_method |-> data_bytes[nul + 1],
                 compressed_text |-> SubSeq(data_bytes, nul + 2, Len(data_bytes))])

RawZtxtData_save(data) ==
    data.keyword \o <<data.null_separator>> \o <<data.compression_method>> \o data.compressed_text

RawZtxtChunk_try_from(raw_generic_chunk) ==
    IF raw_generic_chunk.chunk_type # ZTXT_TYPE
    THEN Err("Generic", "zTXt wrong type")
    ELSE Then(RawZtxtData_load(raw_generic_chunk.data), LAMBDA data :
           Ok([data_length |-> raw_generic_chunk.data_length,
               chunk_type |-> raw_generic_chunk.chunk_type,
               data |-> data,
               crc |-> raw_generic_chunk.crc]))

RawZtxtChunk_save(chunk) ==
    chunk.data_length \o chunk.chunk_type \o RawZtxtData_save(chunk.data) \o chunk.crc

(***************************************************************************)
(* lib.rs: RawDmi                                                          *)
(***************************************************************************)
PNG_HEADER == <<137, 80, 78, 71, 13, 10, 26, 10>>
IHDR_HEADER == <<0, 0, 0, 13, 73, 72, 68, 82>>
ASSUMED_ZTXT_MAX == 500

IHDR_TYPE == <<73, 72, 68, 82>>
PLTE_TYPE == <<80, 76, 84, 69>>
IDAT_TYPE == <<73, 68, 65, 84>>

\* the mutable locals of RawDmi::load before the loop
LoadLocals ==
    [chunk_ihdr |-> None, chunk_ztxt |-> None, chunk_plte |-> None,
     chunks_idat |-> <<>>, chunk_iend |-> None, other_chunks |-> <<>>]

\* the tail of RawDmi::load, after the loop found IEND
RawDmi_finish(acc) ==
    IF acc.chunk_ihdr = None
    THEN Err("Generic", "Buffer end reached without finding an IHDR chunk")
    ELSE IF acc.chunks_idat = <<>>
    THEN Err("Generic", "Buffer end reached without finding an IDAT chunk")
    ELSE Ok([header |-> PNG_HEADER,
             chunk_ihdr |-> Unwrap(acc.chunk_ihdr),
             chunk_ztxt |-> acc.chunk_ztxt,
             chunk_plte |-> acc.chunk_plte,
             other_chunks |-> IF acc.other_chunks = <<>> THEN None ELSE Some(acc.other_chunks),
             chunks_idat |-> acc.chunks_idat,
             chunk_iend |-> Unwrap(acc.chunk_iend)])

\* the loop of RawDmi::load; index is the 0-based offset of the next chunk
RECURSIVE RawDmi_load_loop(_, _, _)
RawDmi_load_loop(dmi_bytes, index, acc) ==
    IF index + 12 > Len(dmi_bytes)
    THEN Err("Generic", "Buffer end reached without finding an IEND chunk")
    ELSE Let(from_be_bytes(Slice(dmi_bytes, index, index + 4)), LAMBDA chunk_data_length :
      IF index + 12 + chunk_data_length > Len(dmi_bytes)
      THEN Panic("slice index out of range")
      ELSE Then(RawGenericChunk_load(Slice(dmi_bytes, index, index + 12 + chunk_data_length)),
             LAMBDA raw_chunk :
        CASE raw_chunk.chunk_type = IHDR_TYPE ->
               RawDmi_load_loop(dmi_bytes, index + 12 + chunk_data_length,
                                [acc EXCEPT !.chunk_ihdr = Some(raw_chunk)])
          [] raw_chunk.chunk_type = ZTXT_TYPE ->
               Then(RawZtxtChunk_try_from(raw_chunk), LAMBDA z :
                 RawDmi_load_loop(dmi_bytes, index + 12 + chunk_data_length,
                                  [acc EXCEPT !.chunk_ztxt = Some(z)]))
          [] raw_chunk.chunk_type = PLTE_TYPE ->
               RawDmi_load_loop(dmi_bytes, index + 12 + chunk_data_length,
                                [acc EXCEPT !.chunk_plte = Some(raw_chunk)])
          [] raw_chunk.chunk_type = IDAT_TYPE ->
               RawDmi_load_loop(dmi_bytes, index + 12 + chunk_data_length,
                                [acc EXCEPT !.chunks_idat = Append(@, raw_chunk)])
          [] raw_chunk.chunk_type = IEND_TYPE ->
               Then(RawIendChunk_try_from(raw_chunk), LAMBDA e :
                 RawDmi_finish([acc EXCEPT !.chunk_iend = Some(e)]))
          [] OTHER ->
               RawDmi_load_loop(dmi_bytes, index + 12 + chunk_data_length,
                                [acc EXCEPT !.other_chunks = Append(@, raw_chunk)])))

RawDmi_load(dmi_bytes) ==
    IF Len(dmi_bytes) < 72
    THEN Err("Generic", "Supplied reader contained fewer bytes than the required 72")
    ELSE IF Slice(dmi_bytes, 0, 8) # PNG_HEADER
    THEN Err("Generic", "PNG header mismatch")
    ELSE RawDmi_load_loop(dmi_bytes, 8, LoadLocals)

RECURSIVE SaveChunks(_)
SaveChunks(chunks) ==
    IF chunks = <<>> THEN <<>>
    ELSE RawGenericChunk_save(Head(chunks)) \o SaveChunks(Tail(chunks))

\* a save that writes the IDAT chunks before the other chunks
RawDmi_save_idat_first(dmi, include_ztxt) ==
    dmi.header
    \o RawGenericChunk_save(dmi.chunk_ihdr)
    \o (IF include_ztxt /\ IsSome(dmi.chunk_ztxt)
        THEN RawZtxtChunk_save(Unwrap(dmi.chunk_ztxt)) ELSE <<>>)
    \o (IF IsSome(dmi.chunk_plte) THEN RawGenericChunk_save(Unwrap(dmi.chunk_plte)) ELSE <<>>)
    \o SaveChunks(dmi.chunks_idat)
    \o (IF IsSome(dmi.other_chunks) THEN SaveChunks(Unwrap(dmi.other_chunks)) ELSE <<>>)
    \o RawIendChunk_save(dmi.chunk_iend)

\* the bytes RawDmi::save writes into a Vec (writes are never short there)
RawDmi_save(dmi, include_ztxt) ==
    dmi.header
    \o RawGenericChunk_save(dmi.chunk_ihdr)
    \o (IF include_ztxt /\ IsSome(dmi.chunk_ztxt)
        THEN RawZtxtChunk_save(Unwrap(dmi.chunk_ztxt)) ELSE <<>>)
    \o (IF IsSome(dmi.chunk_plte) THEN RawGenericChunk_save(Unwrap(dmi.chunk_plte)) ELSE <<>>)
    \o (IF IsSome(dmi.other_chunks) THEN SaveChunks(Unwrap(dmi.other_chunks)) ELSE <<>>)
    \o SaveChunks(dmi.chunks_idat)
    \o RawIendChunk_save(dmi.chunk_iend)

RECURSIVE SumDataLen(_)
SumDataLen(chunks) ==
    IF chunks = <<>> THEN 0 ELSE Len(Head(chunks).data) + 12 + SumDataLen(Tail(chunks))

output_buffer_size(dmi, include_ztxt) ==
    45
    + (IF include_ztxt /\ IsSome(dmi.chunk_ztxt)
       THEN Len(Unwrap(dmi.chunk_ztxt).data.keyword)
            + Len(Unwrap(dmi.chunk_ztxt).data.compressed_text) + 14
       ELSE 0)
    + (IF IsSome(dmi.chunk_plte) THEN Len(Unwrap(dmi.chunk_plte).data) + 12 ELSE 0)
    + (IF IsSome(dmi.other_chunks) THEN SumDataLen(Unwrap(dmi.other_chunks)) ELSE 0)
    + SumDataLen(dmi.chunks_idat)

Zeros(n) == [i \in 1..n |-> 0]

Min(a, b) == IF a <= b THEN a ELSE b
Max(a, b) == IF a >= b THEN a ELSE b

\* a top-up that leaves the cursor behind the bytes it appended
ensure_buffered_bytes_no_seek_back(buffered_bytes, position, source, source_amount_read, additional_length_required) ==
    IF position + additional_length_required > source_amount_read
    THEN IF source_amount_read + additional_length_required > Len(source)
         THEN Err("Io", "read_exact: failed to fill whole buffer")
         ELSE Ok([buffered_bytes |->
                    SubSeq(buffered_bytes, 1, source_amount_read)
                      \o Slice(source, source_amount_read,
                               source_amount_read + additional_length_required)
                      \o SubSeq(buffered_bytes,
                                source_amount_read + additional_length_required + 1,
                                Len(buffered_bytes)),
                  source_amount_read |-> source_amount_read + additional_length_required,
                  position |-> source_amount_read + additional_length_required])
    ELSE Ok([buffered_bytes |-> buffered_bytes, source_amount_read |-> source_amount_read,
             position |-> position])

\* ensure_buffered_bytes.  source is the whole stream, of which the reader
\* has consumed source_amount_read bytes; buffered_bytes is the cursor's
\* vector and position its offset.  Yields the new vector, the amount read
\* and the cursor's position after the two seeks and the write.
ensure_buffered_bytes(buffered_bytes, position, source, source_amount_read, additional_length_required) ==
    IF position + additional_length_required > source_amount_read
    THEN IF source_amount_read + additional_length_required > Len(source)
         THEN Err("Io", "read_exact: failed to fill whole buffer")
         ELSE Let(Slice(source, source_amount_read,
                        source_amount_read + additional_length_required), LAMBDA new_bytes :
              Let(position + (source_amount_read - position), LAMBDA write_at :
              Let(source_amount_read + Len(new_bytes), LAMBDA after :
                Ok([buffered_bytes |->
                       SubSeq(buffered_bytes, 1, write_at) \o new_bytes
                         \o SubSeq(buffered_bytes, write_at + Len(new_bytes) + 1,
                                   Len(buffered_bytes)),
                    source_amount_read |-> after,
                    position |-> (write_at + Len(new_bytes)) + (position - after)]))))
    ELSE Ok([buffered_bytes |-> buffered_bytes, source_amount_read |-> source_amount_read,
             position |-> position])

\* the loop of RawDmi::load_meta; yields Some(zTXt chunk) or None on break
RECURSIVE RawDmi_load_meta_loop(_, _, _, _)
RawDmi_load_meta_loop(source, buffered_bytes, position, source_amount_read) ==
    IF position + 8 > Len(buffered_bytes)
    THEN Err("Io", "read_exact: failed to fill whole buffer")
    ELSE
      LET chunk_header_full == Slice(buffered_bytes, position, position + 8)
          chunk_len == from_be_bytes(Slice(buffered_bytes, position, position + 4))
          chunk_header_type == Slice(buffered_bytes, position + 4, position + 8)
          pos == position + 8
      IN
      IF chunk_header_type = IDAT_TYPE \/ chunk_header_type = IEND_TYPE
      THEN Ok(None)
      ELSE IF chunk_header_type # ZTXT_TYPE
      THEN Then(ensure_buffered_bytes(buffered_bytes, pos, source,
                                      source_amount_read, chunk_len + 12),
             LAMBDA e :
               RawDmi_load_meta_loop(source, e.buffered_bytes,
                                     e.position + chunk_len + 4, e.source_amount_read))
      ELSE Then(ensure_buffered_bytes(buffered_bytes, pos, source,
                                      source_amount_read, chunk_len + 4),
             LAMBDA e :
               IF e.position + chunk_len + 4 > Len(e.buffered_bytes)
               THEN Err("Io", "read_exact: failed to fill whole buffer")
               ELSE Then(RawGenericChunk_load(
                           chunk_header_full
                             \o Slice(e.buffered_bytes, e.position,
                                      e.position + chunk_len + 4)),
                      LAMBDA raw_chunk :
                        Then(RawZtxtChunk_try_from(raw_chunk), LAMBDA z : Ok(Some(z)))))

\* RawDmi::load_meta on a reader that fills the prefetch buffer as far as
\* the stream allows (a Cursor or a File)
RawDmi_load_meta(source) ==
    Let(Min(ASSUMED_ZTXT_MAX, Len(source)), LAMBDA dmi_bytes_read :
    Let(SubSeq(source, 1, dmi_bytes_read) \o Zeros(ASSUMED_ZTXT_MAX - dmi_bytes_read),
      LAMBDA dmi_bytes :
        IF dmi_bytes_read < 72
        THEN Err("Generic", "Supplied reader contained fewer bytes than the required 72")
        ELSE IF Slice(dmi_bytes, 0, 8) # PNG_HEADER
        THEN Err("Generic", "PNG header mismatch")
        ELSE IF Slice(dmi_bytes, 8, 16) # IHDR_HEADER
        THEN Err("Generic", "IHDR chunk is not in the correct location")
        ELSE Then(RawGenericChunk_load(Slice(dmi_bytes, 8, 33)), LAMBDA chunk_ihdr :
             Then(RawDmi_load_meta_loop(source, dmi_bytes, 33, dmi_bytes_read),
               LAMBDA chunk_ztxt :
                 IF chunk_ztxt = None
                 THEN Err("Generic",
                          "zTXt chunk was not found or is after the first IDAT chunk")
                 ELSE Ok([chunk_ihdr |-> chunk_ihdr, chunk_ztxt |-> Unwrap(chunk_ztxt)])))))

(***************************************************************************)
(* The zlib codec behind ztxt::encode / RawZtxtData::decode (the deflate   *)
(* and inflate crates).  The compressor is modelled by its simplest legal  *)
(* output, one stored block: header 78 01, BFINAL=1/BTYPE=00, LEN, NLEN,   *)
(* the bytes, Adler-32.  The decompressor accepts exactly such streams.    *)
(***************************************************************************)
RECURSIVE SumSeq(_, _, _)
SumSeq(s, lo, hi) ==
    IF hi < lo THEN 0
    ELSE IF hi = lo THEN s[lo]
    ELSE LET mid == (lo + hi) \div 2
             left == SumSeq(s, lo, mid)
         IN  IF left < 0 THEN left ELSE left + SumSeq(s, mid + 1, hi)

\* a = 1 + sum of the bytes, b = sum of the running values of a, both mod 65521
adler32(data) ==
    LET n == Len(data)
        a == (1 + SumSeq(data, 1, n)) % 65521
        weighted == [i \in 1..n |-> ((n - i + 1) * data[i]) % 65521]
        b == (n + SumSeq(weighted, 1, n)) % 65521
    IN  << b \div 256, b % 256, a \div 256, a % 256 >>

deflate_bytes_zlib(data) ==
    LET n == Len(data) IN
    <<120, 1, 1, n % 256, n \div 256, 255 - (n % 256), 255 - (n \div 256)>>
    \o data \o adler32(data)

inflate_bytes_zlib(stream) ==
    IF Len(stream) < 11 THEN Err("Generic", "Failed to read compressed text")
    ELSE
      LET n == stream[4] + 256 * stream[5]
          data == SubSeq(stream, 8, 7 + n)
      IN
      IF \/ stream[1] # 120 \/ (stream[1] * 256 + stream[2]) % 31 # 0
         \/ stream[3] # 1
         \/ stream[6] # 255 - stream[4] \/ stream[7] # 255 - stream[5]
         \/ Len(stream) # n + 11
         \/ SubSeq(stream, 8 + n, 11 + n) # adler32(data)
      THEN Err("Generic", "Failed to read compressed text")
      ELSE Ok(data)

encode(text_to_compress) == deflate_bytes_zlib(text_to_compress)

RawZtxtData_decode(data) == inflate_bytes_zlib(data.compressed_text)

\* "Description"
RawZtxtData_default ==
    [keyword |-> <<68, 101, 115, 99, 114, 105, 112, 116, 105, 111, 110>>,
     null_separator |-> 0, compression_method |-> 0, compressed_text |-> <<>>]

create_ztxt_chunk(dmi_signature) ==
    Let([RawZtxtData_default EXCEPT !.compressed_text = encode(dmi_signature)], LAMBDA data :
    Let(RawZtxtData_save(data), LAMBDA data_bytes :
      [data_length |-> to_be_bytes(Len(data_bytes)),
       chunk_type |-> ZTXT_TYPE,
       data |-> data,
       crc |-> calculate_crc(ZTXT_TYPE \o data_bytes)]))

(***************************************************************************)
(* The raster codec behind Icon::load / Icon::save (the image crate).      *)
(* An image is its dimensions and its rows of RGBA pixels.  The encoder    *)
(* writes signature, IHDR (8-bit RGBA), one IDAT holding the zlib stream   *)
(* of the scanlines (filter byte 0, then the pixels), IEND; the decoder    *)
(* reads IHDR and the IDAT chunks and skips every other chunk.             *)
(***************************************************************************)
\* a well-formed chunk: length, type, data, CRC-32 of type and data
MkChunk(chunk_type, data) ==
    to_be_bytes(Len(data)) \o chunk_type \o data \o calculate_crc(chunk_type \o data)

\* IHDR of an 8-bit RGBA image
IhdrData(w, h) == to_be_bytes(w) \o to_be_bytes(h) \o <<8, 6, 0, 0, 0>>

Transparent == <<0, 0, 0, 0>>

\* DynamicImage::new_rgba8
new_rgba8(w, h) ==
    [width |-> w, height |-> h, px |-> [y \in 1..h |-> [x \in 1..w |-> Transparent]]]

\* DynamicImage::crop_imm: the rectangle is clamped to the image
crop_imm(img, x, y, w, h) ==
    LET cx == Min(x, img.width)
        cy == Min(y, img.height)
        ch == Min(h, img.height - cy)
        cw == Min(w, img.width - cx)
    IN  [width |-> cw, height |-> ch,
         px |-> [j \in 1..ch |-> [i \in 1..cw |-> img.px[cy + j][cx + i]]]]

\* imageops::replace: top is copied over bottom at (x, y), clipped to bottom
replace(bottom, top, x, y) ==
    [bottom EXCEPT !.px =
        [j \in 1..bottom.height |-> [i \in 1..bottom.width |->
            IF /\ i - x >= 1 /\ i - x <= top.width
               /\ j - y >= 1 /\ j - y <= top.height
            THEN top.px[j - y][i - x]
            ELSE bottom.px[j][i]]]]

RECURSIVE Flatten(_, _)
Flatten(seqs, k) == IF k > Len(seqs) THEN <<>> ELSE seqs[k] \o Flatten(seqs, k + 1)

Scanlines(img) ==
    Flatten([y \in 1..img.height |-> <<0>> \o Flatten(img.px[y], 1)], 1)

\* write_with_encoder(PngEncoder): the PNG bytes, or an error for an empty image
png_encode(img) ==
    IF img.width = 0 \/ img.height = 0
    THEN Err("Image", "zero width or height")
    ELSE Ok(PNG_HEADER
            \o MkChunk(IHDR_TYPE, IhdrData(img.width, img.height))
            \o MkChunk(IDAT_TYPE, deflate_bytes_zlib(Scanlines(img)))
            \o RawIendChunk_save(RawIendChunk_default))

\* the IHDR data and the concatenated IDAT data of a framed stream
RECURSIVE png_chunks(_, _, _)
png_chunks(bytes, index, acc) ==
    IF index + 12 > Len(bytes) THEN acc
    ELSE LET len == from_be_bytes(Slice(bytes, index, index + 4))
             type == Slice(bytes, index + 4, index + 8)
             data == Slice(bytes, index + 8, index + 8 + len)
             next == index + 12 + len
         IN  CASE type = IHDR_TYPE -> png_chunks(bytes, next, [acc EXCEPT !.ihdr = Some(data)])
               [] type = IDAT_TYPE -> png_chunks(bytes, next, [acc EXCEPT !.idat = @ \o data])
               [] type = IEND_TYPE -> acc
               [] OTHER -> png_chunks(bytes, next, acc)

\* image::load_from_memory_with_format(bytes, Png) on the bytes RawDmi::save wrote
png_decode(bytes) ==
    Let(png_chunks(bytes, 8, [ihdr |-> None, idat |-> <<>>]), LAMBDA c :
      IF c.ihdr = None \/ Len(Unwrap(c.ihdr)) # 13
      THEN Err("Image", "invalid IHDR")
      ELSE
        Let(from_be_bytes(SubSeq(Unwrap(c.ihdr), 1, 4)), LAMBDA w :
        Let(from_be_bytes(SubSeq(Unwrap(c.ihdr), 5, 8)), LAMBDA h :
        Let(inflate_bytes_zlib(c.idat), LAMBDA z :
          IF w = 0 \/ h = 0 \/ SubSeq(Unwrap(c.ihdr), 9, 13) # <<8, 6, 0, 0, 0>>
          THEN Err("Image", "invalid or unsupported IHDR")
          ELSE IF ~IsOk(z) THEN Err("Image", "corrupt deflate stream")
          ELSE IF \/ Len(z.val) # h * (1 + 4 * w)
                  \/ \E y \in 0..(h - 1) : z.val[y * (1 + 4 * w) + 1] # 0
          THEN Err("Image", "corrupt image data")
          ELSE Ok([width |-> w, height |-> h,
                   px |-> [y \in 1..h |-> [x \in 1..w |->
                             SubSeq(z.val, (y - 1) * (1 + 4 * w) + 4 * (x - 1) + 2,
                                           (y - 1) * (1 + 4 * w) + 4 * (x - 1) + 5)]]])))))

(***************************************************************************)
(* Text: the str operations Icon::load and Icon::save use, on ASCII bytes  *)
(***************************************************************************)
\* String::from_utf8; the model's text is ASCII
from_utf8(bytes) ==
    IF \E i \in 1..Len(bytes) : bytes[i] >= 128
    THEN Err("FromUtf8", "invalid utf-8 sequence")
    ELSE Ok(bytes)

\* the first position >= from where pat occurs in s, or 0
FindPat(s, pat, from) ==
    LET hits == {i \in from..(Len(s) - Len(pat) + 1) : SubSeq(s, i, i + Len(pat) - 1) = pat}
    IN  IF hits = {} THEN 0 ELSE CHOOSE i \in hits : \A j \in hits : i <= j

\* str::contains
contains(s, pat) == FindPat(s, pat, 1) # 0

starts_with(s, pat) == Len(s) >= Len(pat) /\ SubSeq(s, 1, Len(pat)) = pat
ends_with(s, pat) == Len(s) >= Len(pat) /\ SubSeq(s, Len(s) - Len(pat) + 1, Len(s)) = pat

\* str::split, from position `from` on
RECURSIVE split_from(_, _, _)
split_from(s, pat, from) ==
    LET at == FindPat(s, pat, from) IN
    IF at = 0 THEN <<SubSeq(s, from, Len(s))>>
    ELSE <<SubSeq(s, from, at - 1)>> \o split_from(s, pat, at + Len(pat))

\* str::split_terminator: as split, without a trailing empty piece
split_terminator(s, pat) ==
    LET parts == split_from(s, pat, 1) IN
    IF parts[Len(parts)] = <<>> THEN SubSeq(parts, 1, Len(parts) - 1) ELSE parts

\* str::lines: the pieces between "\n", each without a "\r" before its "\n"
lines(text) ==
    LET parts == split_terminator(text, <<10>>)
        terminated(k) == k < Len(parts) \/ ends_with(text, <<10>>)
    IN  [k \in 1..Len(parts) |->
            IF terminated(k) /\ ends_with(parts[k], <<13>>)
            THEN SubSeq(parts[k], 1, Len(parts[k]) - 1)
            ELSE parts[k]]

IsDigit(c) == 48 <= c /\ c <= 57

RECURSIVE DigitsValue(_, _, _)
DigitsValue(s, k, acc) ==
    IF k > Len(s) THEN acc ELSE DigitsValue(s, k + 1, acc * 10 + (s[k] - 48))

RECURSIVE StripZeros(_)
StripZeros(s) == IF Len(s) > 1 /\ s[1] = 48 THEN StripZeros(Tail(s)) ELSE s

\* "2147483647": the largest u32 the model represents (inputs stay below 2^31)
MaxDigits == <<50, 49, 52, 55, 52, 56, 51, 54, 52, 55>>

\* decimal strings of equal length compare as their values
DigitsLeq(a, b) ==
    a = b \/ \E i \in 1..Len(a) : a[i] < b[i] /\ \A j \in 1..(i - 1) : a[j] = b[j]

\* str::parse::<u32>: an optional "+", then digits
parse_u32(s) ==
    Let(IF Len(s) > 0 /\ s[1] = 43 THEN Tail(s) ELSE s, LAMBDA body :
      IF body = <<>> \/ \E i \in 1..Len(body) : ~IsDigit(body[i])
      THEN Err("ParseInt", "invalid digit found in string")
      ELSE Let(StripZeros(body), LAMBDA digits :
        IF Len(digits) > 10 \/ (Len(digits) = 10 /\ ~DigitsLeq(digits, MaxDigits))
        THEN Err("ParseInt", "number too large to fit in target type")
        ELSE Ok(DigitsValue(digits, 1, 0))))

\* str::parse::<u8>
parse_u8(s) ==
    Then(parse_u32(s), LAMBDA v :
      IF v > 255
      THEN Err("ParseInt", "number too large to fit in target type")
      ELSE Ok(v))

\* u32 / u8 Display
RECURSIVE to_string(_)
to_string(n) == IF n < 10 THEN <<48 + n>> ELSE to_string(n \div 10) \o <<48 + (n % 10)>>

RECURSIVE StripTrailingZeros(_)
StripTrailingZeros(s) ==
    IF Len(s) > 0 /\ s[Len(s)] = 48 THEN StripTrailingZeros(SubSeq(s, 1, Len(s) - 1)) ELSE s

\* str::parse::<f32> on plain decimals "i" or "i.f" of few digits, which f32
\* and its Display reproduce exactly: the value is the integer part and the
\* fraction digits without trailing zeros
parse_f32(s) ==
    Let(FindPat(s, <<46>>, 1), LAMBDA dot :
    Let(IF dot = 0 THEN s ELSE SubSeq(s, 1, dot - 1), LAMBDA ip :
    Let(IF dot = 0 THEN <<>> ELSE SubSeq(s, dot + 1, Len(s)), LAMBDA fp :
      IF \/ (ip = <<>> /\ fp = <<>>)
         \/ \E i \in 1..Len(ip) : ~IsDigit(ip[i])
         \/ \E i \in 1..Len(fp) : ~IsDigit(fp[i])
         \/ Len(ip) > 6
      THEN Err("ParseFloat", "invalid float literal")
      ELSE Ok([int |-> DigitsValue(ip, 1, 0), frac |-> StripTrailingZeros(fp)]))))

\* f32 Display
f32_to_string(v) ==
    to_string(v.int) \o (IF v.frac = <<>> THEN <<>> ELSE <<46>> \o v.frac)

\* the results of parsing each piece, or the first error
RECURSIVE parse_f32_list(_, _)
parse_f32_list(parts, k) ==
    IF k > Len(parts) THEN Ok(<<>>)
    ELSE Then(parse_f32(parts[k]), LAMBDA v :
         Then(parse_f32_list(parts, k + 1), LAMBDA rest : Ok(<<v>> \o rest)))

\* [String]::join
RECURSIVE join(_, _)
join(parts, sep) ==
    IF parts = <<>> THEN <<>>
    ELSE IF Len(parts) = 1 THEN parts[1]
    ELSE parts[1] \o sep \o join(Tail(parts), sep)

(***************************************************************************)
(* icon.rs: Icon::load and Icon::load_meta                                 *)
(***************************************************************************)
BEGIN_DMI == <<35, 32, 66, 69, 71, 73, 78, 32, 68, 77, 73>>
END_DMI == <<35, 32, 69, 78, 68, 32, 68, 77, 73>>
EQ == <<32, 61, 32>>
QUOTE == <<34>>
COMMA == <<44>>
KEY_VERSION == <<118, 101, 114, 115, 105, 111, 110>>
KEY_WIDTH == <<9, 119, 105, 100, 116, 104>>
KEY_HEIGHT == <<9, 104, 101, 105, 103, 104, 116>>
KEY_STATE == <<115, 116, 97, 116, 101>>
STATE_EQ_QUOTE == <<115, 116, 97, 116, 101, 32, 61, 32, 34>>
KEY_DIRS == <<9, 100, 105, 114, 115>>
KEY_FRAMES == <<9, 102, 114, 97, 109, 101, 115>>
KEY_DELAY == <<9, 100, 101, 108, 97, 121>>
KEY_LOOP == <<9, 108, 111, 111, 112>>
KEY_REWIND == <<9, 114, 101, 119, 105, 110, 100>>
KEY_MOVEMENT == <<9, 109, 111, 118, 101, 109, 101, 110, 116>>
KEY_HOTSPOT == <<9, 104, 111, 116, 115, 112, 111, 116>>

\* Looping: Indefinitely is None, NTimes(n) is Some(n)
Indefinitely == None

\* Looping::new: NonZeroU32::new(x).unwrap()
Looping_new(x) == IF x = 0 THEN Panic("called Option::unwrap() on a None value") ELSE Ok(Some(x))

\* IconState::default, with the per-state locals of load before its inner loop
StateLocals ==
    [dirs |-> None, frames |-> None, delay |-> None, loop_flag |-> Indefinitely,
     rewind |-> FALSE, movement |-> FALSE, hotspot |-> None, unknown_settings |-> None]

\* HashMap::insert
map_insert(m, k, v) ==
    [x \in (DOMAIN m) \cup {k} |-> IF x = k THEN v ELSE m[x]]

EmptyMap == [x \in {} |-> <<>>]

\* the header lines: "# BEGIN DMI", version, width, height
Icon_parse_header(text) ==
    IF Len(text) < 1 \/ text[1] # BEGIN_DMI
    THEN Err("Generic", "no DMI header found")
    ELSE IF Len(text) < 2 THEN Err("Generic", "no version header found")
    ELSE Let(split_terminator(text[2], EQ), LAMBDA v :
      IF Len(v) # 2 \/ v[1] # KEY_VERSION THEN Err("Generic", "improper version header found")
      ELSE IF Len(text) < 3 THEN Err("Generic", "no width found")
      ELSE Let(split_terminator(text[3], EQ), LAMBDA w :
        IF Len(w) # 2 \/ w[1] # KEY_WIDTH THEN Err("Generic", "improper width found")
        ELSE Then(parse_u32(w[2]), LAMBDA width :
          IF Len(text) < 4 THEN Err("Generic", "no height found")
          ELSE Let(split_terminator(text[4], EQ), LAMBDA h :
            IF Len(h) # 2 \/ h[1] # KEY_HEIGHT THEN Err("Generic", "improper height found")
            ELSE Then(parse_u32(h[2]), LAMBDA height :
              IF width = 0 \/ height = 0
              THEN Err("Generic", "invalid width / height values")
              ELSE Ok([version |-> v[2], width |-> width, height |-> height]))))))

\* the "state = ..." line: the name between its quotes, taken as it stands
Icon_parse_state_line(current_line) ==
    Let(split_terminator(current_line, EQ), LAMBDA split_version :
      IF Len(split_version) # 2 \/ split_version[1] # KEY_STATE
      THEN Err("Generic", "improper state found")
      ELSE Let(split_version[2], LAMBDA name :
        IF ~starts_with(name, QUOTE) \/ ~ends_with(name, QUOTE)
        THEN Err("Generic", "invalid name icon_state found in metadata")
        ELSE IF Len(name) < 2 THEN Err("Generic", "invalid name icon_state, improper size")
        ELSE from_utf8(SubSeq(name, 2, Len(name) - 1))))

\* one setting line applied to the locals
Icon_apply_setting(st, key, value) ==
    CASE key = KEY_DIRS ->
           Then(parse_u8(value), LAMBDA r : Ok([st EXCEPT !.dirs = Some(r)]))
      [] key = KEY_FRAMES ->
           Then(parse_u32(value), LAMBDA r : Ok([st EXCEPT !.frames = Some(r)]))
      [] key = KEY_DELAY ->
           Then(parse_f32_list(split_terminator(value, COMMA), 1),
                LAMBDA r : Ok([st EXCEPT !.delay = Some(r)]))
      [] key = KEY_LOOP ->
           Then(parse_u32(value), LAMBDA r :
           Then(Looping_new(r), LAMBDA l : Ok([st EXCEPT !.loop_flag = l])))
      [] key = KEY_REWIND ->
           Then(parse_u8(value), LAMBDA r : Ok([st EXCEPT !.rewind = (r # 0)]))
      [] key = KEY_MOVEMENT ->
           Then(parse_u8(value), LAMBDA r : Ok([st EXCEPT !.movement = (r # 0)]))
      [] key = KEY_HOTSPOT ->
           Let(split_terminator(value, COMMA), LAMBDA text_coordinates :
             IF Len(text_coordinates) # 3 THEN Err("Generic", "improper hotspot found")
             ELSE Then(parse_u32(text_coordinates[1]), LAMBDA x :
                  Then(parse_u32(text_coordinates[2]), LAMBDA y :
                    Ok([st EXCEPT !.hotspot = Some([x |-> x, y |-> y])]))))
      [] OTHER ->
           Ok([st EXCEPT !.unknown_settings =
                 Some(map_insert(IF @ = None THEN EmptyMap ELSE Unwrap(@), key, value))])

\* the inner loop: setting lines from line k on, up to the next state line
\* or the trailer; yields the locals and the index of the line that ended it
RECURSIVE Icon_parse_settings(_, _, _)
Icon_parse_settings(text, k, st) ==
    IF k > Len(text) THEN Err("Generic", "no DMI trailer found")
    ELSE Let(text[k], LAMBDA current_line :
      IF contains(current_line, END_DMI) \/ contains(current_line, STATE_EQ_QUOTE)
      THEN Ok([st |-> st, k |-> k])
      ELSE Let(split_terminator(current_line, EQ), LAMBDA split_version :
        IF Len(split_version) # 2 THEN Err("Generic", "improper state found")
        ELSE Then(Icon_apply_setting(st, split_version[1], split_version[2]),
                  LAMBDA r : Icon_parse_settings(text, k + 1, r))))

\* index + (dirs as u32 * frames) in u32 arithmetic, on 16-bit halves.
\* With overflow checks (debug) an overflow panics; without (release) the
\* result wraps.  Yields the halves of the result and whether it wrapped.
next_tile_index(bld, index, dirs, frames) ==
    LET low == dirs * (frames % 65536)
        mulHi == dirs * (frames \div 65536) + low \div 65536
        mulLo == low % 65536
        mulWraps == mulHi >= 65536
        addLo == (index % 65536) + mulLo
        addHi == (index \div 65536) + (mulHi % 65536) + addLo \div 65536
        addWraps == addHi >= 65536
    IN  IF bld = "debug" /\ mulWraps THEN Panic("attempt to multiply with overflow")
        ELSE IF bld = "debug" /\ addWraps THEN Panic("attempt to add with overflow")
        ELSE Ok([hi |-> addHi % 65536, lo |-> addLo % 65536,
                 wrapped |-> mulWraps \/ addWraps])

\* a u32 given by its halves exceeds max
exceeds(n, max) ==
    \/ n.hi > max \div 65536
    \/ n.hi = max \div 65536 /\ n.lo > max % 65536

\* what the header and the image fix before the state loop
\* (image dimensions in the model stay below 2^15)
Icon_geometry(header, img_width, img_height) ==
    IF \/ img_width = 0 \/ img_height = 0
       \/ img_width % header.width # 0 \/ img_height % header.height # 0
    THEN Err("Generic", "invalid image width / height values, mismatch with metadata")
    ELSE Ok([width |-> header.width, height |-> header.height,
             width_in_states |-> img_width \div header.width,
             height_in_states |-> img_height \div header.height,
             max_possible_states |->
                 (img_width \div header.width) * (img_height \div header.height)])

\* crop_tiles with rows and columns of the sheet taken for one another
crop_tiles_transposed(base_image, geo, index, dirs, frames) ==
    [t \in 1..(dirs * frames) |->
        crop_imm(base_image,
                 ((index + t - 1) % geo.height_in_states) * geo.width,
                 ((index + t - 1) \div geo.height_in_states) * geo.height,
                 geo.width, geo.height)]

\* the tiles of one state: frame-outer, direction-inner, index advancing by one
crop_tiles(base_image, geo, index, dirs, frames) ==
    [t \in 1..(dirs * frames) |->
        crop_imm(base_image,
                 ((index + t - 1) % geo.width_in_states) * geo.width,
                 ((index + t - 1) \div geo.width_in_states) * geo.height,
                 geo.width, geo.height)]

MakeState(name, st, images) ==
    [name |-> name, dirs |-> Unwrap(st.dirs), frames |-> Unwrap(st.frames),
     images |-> images, delay |-> st.delay, loop_flag |-> st.loop_flag,
     rewind |-> st.rewind, movement |-> st.movement, hotspot |-> st.hotspot,
     unknown_settings |-> st.unknown_settings]

\* the outer loop of Icon::load from line k on.  A state whose tile count
\* wrapped past the check asks for 2^31 or more tiles: the process runs out
\* of memory and aborts.
RECURSIVE Icon_load_states(_, _, _, _, _, _, _)
Icon_load_states(bld, base_image, geo, text, k, index, states) ==
    IF contains(text[k], END_DMI) THEN Ok(states)
    ELSE
      Then(Icon_parse_state_line(text[k]), LAMBDA name :
      Then(Icon_parse_settings(text, k + 1, StateLocals), LAMBDA parsed :
        IF parsed.st.dirs = None \/ parsed.st.frames = None
        THEN Err("Generic", "state lacks essential settings")
        ELSE
          Then(next_tile_index(bld, index, Unwrap(parsed.st.dirs), Unwrap(parsed.st.frames)),
            LAMBDA next :
              IF exceeds(next, geo.max_possible_states)
              THEN Err("Generic",
                       "metadata settings exceeded the maximum number of states possible")
              ELSE IF next.wrapped
              THEN [tag |-> "Abort", val |-> <<>>, kind |-> "abort",
                    msg |-> "memory allocation failed"]
              ELSE Icon_load_states(bld, base_image, geo, text, parsed.k,
                       next.hi * 65536 + next.lo,
                       Append(states,
                              MakeState(name, parsed.st,
                                        crop_tiles(base_image, geo, index,
                                                   Unwrap(parsed.st.dirs),
                                                   Unwrap(parsed.st.frames))))))))

\* the outer loop of Icon::load_meta: index = next_index, no tiles
RECURSIVE Icon_load_meta_states(_, _, _, _, _, _)
Icon_load_meta_states(bld, geo, text, k, index, states) ==
    IF contains(text[k], END_DMI) THEN Ok(states)
    ELSE
      Then(Icon_parse_state_line(text[k]), LAMBDA name :
      Then(Icon_parse_settings(text, k + 1, StateLocals), LAMBDA parsed :
        IF parsed.st.dirs = None \/ parsed.st.frames = None
        THEN Err("Generic", "state lacks essential settings")
        ELSE
          Then(next_tile_index(bld, index, Unwrap(parsed.st.dirs), Unwrap(parsed.st.frames)),
            LAMBDA next_index :
              IF exceeds(next_index, geo.max_possible_states)
              THEN Err("Generic",
                       "metadata settings exceeded the maximum number of states possible")
              ELSE Icon_load_meta_states(bld, geo, text, parsed.k,
                       next_index.hi * 65536 + next_index.lo,
                       Append(states, MakeState(name, parsed.st, <<>>))))))

\* the decoded manifest lines of a zTXt chunk
Icon_manifest_lines(chunk_ztxt) ==
    Then(RawZtxtData_decode(chunk_ztxt.data), LAMBDA decompressed_text :
    Then(from_utf8(decompressed_text), LAMBDA text : Ok(lines(text))))

MakeIcon(header, states) ==
    [version |-> header.version, width |-> header.width, height |-> header.height,
     states |-> states]

Icon_load(bld, bytes) ==
    Then(RawDmi_load(bytes), LAMBDA raw_dmi :
      IF raw_dmi.chunk_ztxt = None
      THEN Err("Generic", "Error loading icon: no zTXt chunk found.")
      ELSE
        Then(Icon_manifest_lines(Unwrap(raw_dmi.chunk_ztxt)), LAMBDA text :
        Then(Icon_parse_header(text), LAMBDA header :
        Then(png_decode(RawDmi_save(raw_dmi, TRUE)), LAMBDA base_image :
        Then(Icon_geometry(header, base_image.width, base_image.height), LAMBDA geo :
          IF Len(text) < 5
          THEN Err("Generic", "no DMI trailer nor states found")
          ELSE Then(Icon_load_states(bld, base_image, geo, text, 5, 0, <<>>),
                    LAMBDA states : Ok(MakeIcon(header, states))))))))

Icon_load_meta(bld, bytes) ==
    Then(RawDmi_load_meta(bytes), LAMBDA raw_dmi :
    Then(Icon_manifest_lines(raw_dmi.chunk_ztxt), LAMBDA text :
    Then(Icon_parse_header(text), LAMBDA header :
    Then(Icon_geometry(header,
                       from_be_bytes(SubSeq(raw_dmi.chunk_ihdr.data, 1, 4)),
                       from_be_bytes(SubSeq(raw_dmi.chunk_ihdr.data, 5, 8))),
      LAMBDA geo :
        IF Len(text) < 5
        THEN Err("Generic", "no DMI trailer nor states found")
        ELSE Then(Icon_load_meta_states(bld, geo, text, 5, 0, <<>>),
                  LAMBDA states : Ok(MakeIcon(header, states)))))))

(***************************************************************************)
(* icon.rs: Icon::save                                                     *)
(***************************************************************************)
NL == <<10>>
TAB == <<9>>

\* images.len() as u32 != dirs as u32 * frames, in u32 arithmetic
Icon_save_count_differs(bld, icon_state) ==
    Then(next_tile_index(bld, 0, icon_state.dirs, icon_state.frames), LAMBDA product :
      Ok(\/ product.hi >= 32768
         \/ Len(icon_state.images) # product.hi * 65536 + product.lo))

\* Icon_save_animation without the checks on the delay list
Icon_save_animation_unchecked(icon_state) ==
    IF icon_state.frames > 1 /\ icon_state.delay # None
    THEN Ok(KEY_DELAY \o EQ
            \o join([i \in 1..Len(Unwrap(icon_state.delay)) |->
                       f32_to_string(Unwrap(icon_state.delay)[i])], COMMA)
            \o NL)
    ELSE Ok(<<>>)

\* the lines written only when frames > 1: delay, loop, rewind, movement
Icon_save_animation(icon_state) ==
    IF icon_state.frames > 1
    THEN IF icon_state.delay = None
         THEN Err("Generic", "number of frames larger than one without a delay entry")
         ELSE IF Len(Unwrap(icon_state.delay)) # icon_state.frames
         THEN Err("Generic", "number of frames differs from the delay entry")
         ELSE Ok(KEY_DELAY \o EQ
                 \o join([i \in 1..Len(Unwrap(icon_state.delay)) |->
                            f32_to_string(Unwrap(icon_state.delay)[i])], COMMA)
                 \o NL
                 \o (IF icon_state.loop_flag # Indefinitely
                     THEN KEY_LOOP \o EQ \o to_string(Unwrap(icon_state.loop_flag)) \o NL
                     ELSE <<>>)
                 \o (IF icon_state.rewind THEN KEY_REWIND \o EQ \o <<49>> \o NL ELSE <<>>)
                 \o (IF icon_state.movement THEN KEY_MOVEMENT \o EQ \o <<49>> \o NL ELSE <<>>))
    ELSE Ok(<<>>)

Icon_save_hotspot(icon_state) ==
    IF icon_state.hotspot = None THEN <<>>
    ELSE KEY_HOTSPOT \o EQ \o to_string(Unwrap(icon_state.hotspot).x) \o COMMA
         \o to_string(Unwrap(icon_state.hotspot).y) \o COMMA \o <<49>> \o NL

\* byte strings in dictionary order
LexLess(a, b) ==
    \/ \E i \in 1..Min(Len(a), Len(b)) : a[i] < b[i] /\ \A j \in 1..(i - 1) : a[j] = b[j]
    \/ Len(a) < Len(b) /\ SubSeq(b, 1, Len(a)) = a

\* HashMap::iter visits the keys in an order the caller cannot choose: here
\* dictionary order or, when rev, its reverse
RECURSIVE iter_keys(_, _)
iter_keys(keys, rev) ==
    IF keys = {} THEN <<>>
    ELSE Let(CHOOSE k \in keys :
               \A o \in keys \ {k} : IF rev THEN LexLess(o, k) ELSE LexLess(k, o),
             LAMBDA first : <<first>> \o iter_keys(keys \ {first}, rev))

\* format!("\t{} = {}\n", setting, value) for every entry
Icon_save_unknown(icon_state, rev) ==
    IF icon_state.unknown_settings = None THEN <<>>
    ELSE Let(Unwrap(icon_state.unknown_settings), LAMBDA hashmap :
         Let(iter_keys(DOMAIN hashmap, rev), LAMBDA order :
           Flatten([i \in 1..Len(order) |->
                      TAB \o order[i] \o EQ \o hashmap[order[i]] \o NL], 1)))

\* the loop over the states: the manifest text and the sprites so far
RECURSIVE Icon_save_states(_, _, _, _, _, _)
Icon_save_states(bld, states, k, signature, sprites, rev) ==
    IF k > Len(states) THEN Ok([signature |-> signature, sprites |-> sprites])
    ELSE
      Let(states[k], LAMBDA icon_state :
      Then(Icon_save_count_differs(bld, icon_state), LAMBDA differs :
        IF differs
        THEN Err("Generic", "number of images differs from the stated metadata")
        ELSE
          Then(Icon_save_animation(icon_state), LAMBDA animation :
            Icon_save_states(bld, states, k + 1,
                signature
                \o KEY_STATE \o EQ \o QUOTE \o icon_state.name \o QUOTE \o NL
                \o KEY_DIRS \o EQ \o to_string(icon_state.dirs) \o NL
                \o KEY_FRAMES \o EQ \o to_string(icon_state.frames) \o NL
                \o animation
                \o Icon_save_hotspot(icon_state)
                \o Icon_save_unknown(icon_state, rev),
                sprites \o icon_state.images, rev))))

\* (n as f64).sqrt().ceil() as u32
states_rooted(n) == CHOOSE r \in 0..n : r * r >= n /\ \A q \in 0..(r - 1) : q * q < n

\* a square atlas: as many rows as columns
cell_height_square(n, rooted) == rooted

\* ((n as f64) / states_rooted).ceil() as u32; 0.0 / 0.0 is NaN, which casts to 0
cell_height_of(n, rooted) ==
    IF n = 0 THEN 0 ELSE (n + rooted - 1) \div rooted

\* blit_sprites with every sprite one cell further along its row
RECURSIVE blit_sprites_shifted(_, _, _, _, _, _)
blit_sprites_shifted(new_png, sprites, i, width, height, cell_width) ==
    IF i > Len(sprites) THEN new_png
    ELSE blit_sprites_shifted(replace(new_png, sprites[i],
                                      width * (i % cell_width),
                                      height * ((i - 1) \div cell_width)),
                              sprites, i + 1, width, height, cell_width)

\* the atlas: every sprite blitted at its cell
RECURSIVE blit_sprites(_, _, _, _, _, _)
blit_sprites(new_png, sprites, i, width, height, cell_width) ==
    IF i > Len(sprites) THEN new_png
    ELSE blit_sprites(replace(new_png, sprites[i],
                              width * ((i - 1) % cell_width),
                              height * ((i - 1) \div cell_width)),
                      sprites, i + 1, width, height, cell_width)

\* Icon::save into a Vec: the bytes written
Icon_save(bld, self, rev) ==
    Then(Icon_save_states(bld, self.states, 1,
                          BEGIN_DMI \o NL
                          \o KEY_VERSION \o EQ \o self.version \o NL
                          \o KEY_WIDTH \o EQ \o to_string(self.width) \o NL
                          \o KEY_HEIGHT \o EQ \o to_string(self.height) \o NL,
                          <<>>, rev),
      LAMBDA body :
        Let(states_rooted(Len(body.sprites)), LAMBDA cell_width :
        Let(cell_height_of(Len(body.sprites), cell_width), LAMBDA cell_height :
        Then(png_encode(blit_sprites(new_rgba8(cell_width * self.width,
                                               cell_height * self.height),
                                     body.sprites, 1, self.width, self.height, cell_width)),
          LAMBDA dmi_data :
            Then(RawDmi_load(dmi_data), LAMBDA new_dmi :
              Ok(RawDmi_save([new_dmi EXCEPT !.chunk_ztxt =
                                Some(create_ztxt_chunk(body.signature \o END_DMI \o NL))],
                             TRUE)))))))

(***************************************************************************)
(* Byte streams handed to RawDmi::load / RawDmi::load_meta                 *)
(***************************************************************************)
TEXT_TYPE == <<116, 69, 88, 116>>

\* at most this many chunks between the signature and IEND
MaxChunks == 3

ChunkKinds == {"IHDR", "zTXt", "PLTE", "tEXt", "IDAT"}

Layouts == UNION {[1..n -> ChunkKinds] : n \in 1..MaxChunks}

\* "# BEGIN DMI\n# END DMI\n"
TinyManifest ==
    <<35, 32, 66, 69, 71, 73, 78, 32, 68, 77, 73, 10, 35, 32, 69, 78, 68, 32, 68, 77, 73, 10>>

\* the k-th chunk of a layout; repeated chunks of one kind differ in content
KindChunk(kind, k) ==
    CASE kind = "IHDR" -> MkChunk(IHDR_TYPE, IhdrData(k, 1))
      [] kind = "zTXt" -> RawZtxtChunk_save(create_ztxt_chunk(TinyManifest \o <<48 + k>>))
      [] kind = "PLTE" -> MkChunk(PLTE_TYPE, <<k, 0, 0>>)
      [] kind = "tEXt" -> MkChunk(TEXT_TYPE, <<97, 0, 48 + k>>)
      [] kind = "IDAT" -> MkChunk(IDAT_TYPE, deflate_bytes_zlib(<<0, k, k, k, 255>>))

RECURSIVE LayoutBytes(_, _)
LayoutBytes(layout, k) ==
    IF k > Len(layout) THEN <<>>
    ELSE KindChunk(layout[k], k) \o LayoutBytes(layout, k + 1)

IendBytes == MkChunk(IEND_TYPE, <<>>)

Variants == {"plain", "trailing", "badcrc", "cut", "badlen"}

\* a stream: signature, the layout's chunks, IEND; then damaged per variant
RawInput(layout, variant) ==
    LET body == PNG_HEADER \o LayoutBytes(layout, 1)
        whole == body \o IendBytes
        \* offset (1-based) of the last CRC byte of the first chunk
        crcAt == 8 + 12 + from_be_bytes(SubSeq(whole, 9, 12))
    IN  CASE variant = "plain" -> whole
          [] variant = "trailing" -> whole \o <<0>>
          [] variant = "badcrc" -> [whole EXCEPT ![crcAt] = (@ + 1) % 256]
          [] variant = "cut" -> SubSeq(whole, 1, Len(whole) - 1)
          [] variant = "badlen" -> [whole EXCEPT ![Len(body) + 4] = 1]

\* streams whose IHDR chunk does not have 13 data bytes
OddIhdr(data) ==
    PNG_HEADER \o MkChunk(IHDR_TYPE, data) \o KindChunk("zTXt", 2) \o KindChunk("IDAT", 3)
    \o IendBytes

OddInputs == {OddIhdr(IhdrData(1, 1) \o <<0>>), OddIhdr(SubSeq(IhdrData(1, 1), 1, 12))}

\* streams with every kind of chunk, in the order save writes and in another
FullLayouts ==
    {<<"IHDR", "zTXt", "PLTE", "tEXt", "tEXt", "IDAT", "IDAT">>,
     <<"IDAT", "tEXt", "PLTE", "zTXt", "IHDR", "tEXt", "IDAT">>}

FullInputs == {PNG_HEADER \o LayoutBytes(l, 1) \o IendBytes : l \in FullLayouts}

RawInputs == {RawInput(l, v) : l \in Layouts, v \in Variants} \cup OddInputs \cup FullInputs

(***************************************************************************)
(* Specification SpecRaw: the chunk engine on framed byte streams          *)
(***************************************************************************)
InitRaw ==
    /\ pc = "raw_load"
    /\ build \in {"debug", "release"}
    /\ input \in RawInputs
    /\ raw = NotRun /\ rawMeta = NotRun /\ rawOut = NotRun
    /\ icon = NotRun /\ meta = NotRun /\ saved = NotRun
    /\ reMeta = NotRun /\ reIcon = NotRun
    /\ query = None /\ got = NotRun
    /\ withZtxt \in BOOLEAN
    /\ rawChunk = NotRun /\ chunkOut = NotRun /\ ztxtOut = NotRun /\ walk = None

\* RawDmi::load(&input[..])
RawLoad ==
    /\ pc = "raw_load"
    /\ raw' = RawDmi_load(input)
    /\ pc' = "raw_load_meta"
    /\ UNCHANGED <<build, input, rawMeta, rawOut, icon, meta, saved, reMeta, reIcon, query, got,
                   withZtxt, rawChunk, chunkOut, ztxtOut, walk>>

\* RawDmi::load_meta(Cursor::new(input))
RawLoadMeta ==
    /\ pc = "raw_load_meta"
    /\ rawMeta' = RawDmi_load_meta(input)
    /\ pc' = "raw_save"
    /\ UNCHANGED <<build, input, raw, rawOut, icon, meta, saved, reMeta, reIcon, query, got,
                   withZtxt, rawChunk, chunkOut, ztxtOut, walk>>

\* raw.save(&mut vec, withZtxt) on the unmodified result of load
RawSave ==
    /\ pc = "raw_save"
    /\ IsOk(raw)
    /\ rawOut' = Ok(RawDmi_save(raw.val, withZtxt))
    /\ pc' = "raw_done"
    /\ UNCHANGED <<build, input, raw, rawMeta, icon, meta, saved, reMeta, reIcon, query, got,
                   withZtxt, rawChunk, chunkOut, ztxtOut, walk>>

NextRaw == RawLoad \/ RawLoadMeta \/ RawSave

SpecRaw == InitRaw /\ [][NextRaw]_vars

(***************************************************************************)
(* DMI files handed to Icon::load / Icon::load_meta                        *)
(***************************************************************************)
SettingLine(key, value) == key \o EQ \o value \o NL

D(n) == to_string(n)

KEY_CUSTOM == <<9, 99, 117, 115, 116, 111, 109>>
KEY_OTHER == <<9, 111, 116, 104, 101, 114>>

\* the setting lines of the state blocks the manifests are made of
BlockKinds ==
    {"plain", "dirs4", "dirs2", "anim", "anim_full", "nodelay", "still_delay",
     "still_flags", "hotspot", "hotspot2", "hotspot4", "hotspot_trail", "custom",
     "big", "overflow", "loop0", "noframes"}

BlockLines(kind) ==
    CASE kind = "plain" -> SettingLine(KEY_DIRS, D(1)) \o SettingLine(KEY_FRAMES, D(1))
      [] kind = "dirs4" -> SettingLine(KEY_DIRS, D(4)) \o SettingLine(KEY_FRAMES, D(1))
      [] kind = "dirs2" -> SettingLine(KEY_DIRS, D(2)) \o SettingLine(KEY_FRAMES, D(1))
      [] kind = "anim" ->
           SettingLine(KEY_DIRS, D(1)) \o SettingLine(KEY_FRAMES, D(2))
           \o SettingLine(KEY_DELAY, D(1) \o COMMA \o D(2) \o <<46>> \o D(5))
      [] kind = "anim_full" ->
           SettingLine(KEY_DIRS, D(1)) \o SettingLine(KEY_FRAMES, D(2))
           \o SettingLine(KEY_DELAY, D(1) \o COMMA \o D(1))
           \o SettingLine(KEY_LOOP, D(3)) \o SettingLine(KEY_REWIND, D(1))
           \o SettingLine(KEY_MOVEMENT, D(1))
      [] kind = "nodelay" -> SettingLine(KEY_DIRS, D(1)) \o SettingLine(KEY_FRAMES, D(2))
      [] kind = "still_delay" ->
           SettingLine(KEY_DIRS, D(1)) \o SettingLine(KEY_FRAMES, D(1))
           \o SettingLine(KEY_DELAY, D(1))
      [] kind = "still_flags" ->
           SettingLine(KEY_DIRS, D(1)) \o SettingLine(KEY_FRAMES, D(1))
           \o SettingLine(KEY_LOOP, D(2)) \o SettingLine(KEY_REWIND, D(1))
           \o SettingLine(KEY_MOVEMENT, D(1))
      [] kind = "hotspot" ->
           SettingLine(KEY_DIRS, D(1)) \o SettingLine(KEY_FRAMES, D(1))
           \o SettingLine(KEY_HOTSPOT, D(3) \o COMMA \o D(4) \o COMMA \o D(1))
      [] kind = "hotspot2" ->
           SettingLine(KEY_DIRS, D(1)) \o SettingLine(KEY_FRAMES, D(1))
           \o SettingLine(KEY_HOTSPOT, D(3) \o COMMA \o D(4))
      [] kind = "hotspot4" ->
           SettingLine(KEY_DIRS, D(1)) \o SettingLine(KEY_FRAMES, D(1))
           \o SettingLine(KEY_HOTSPOT, D(3) \o COMMA \o D(4) \o COMMA \o D(1) \o COMMA \o D(5))
      [] kind = "hotspot_trail" ->
           SettingLine(KEY_DIRS, D(1)) \o SettingLine(KEY_FRAMES, D(1))
           \o SettingLine(KEY_HOTSPOT, D(3) \o COMMA \o D(4) \o COMMA \o D(1) \o COMMA)
      [] kind = "custom" ->
           SettingLine(KEY_DIRS, D(1)) \o SettingLine(KEY_FRAMES, D(1))
           \o SettingLine(KEY_CUSTOM, D(42))
      [] kind = "big" ->
           SettingLine(KEY_DIRS, D(4)) \o SettingLine(KEY_FRAMES, D(2))
           \o SettingLine(KEY_DELAY, D(1) \o COMMA \o D(1))
      [] kind = "overflow" ->
           SettingLine(KEY_DIRS, D(4)) \o SettingLine(KEY_FRAMES, D(1073741824))
      [] kind = "loop0" ->
           SettingLine(KEY_DIRS, D(1)) \o SettingLine(KEY_FRAMES, D(1))
           \o SettingLine(KEY_LOOP, D(0))
      [] kind = "noframes" -> SettingLine(KEY_DIRS, D(1))
      [] kind = "endvalue" ->
           SettingLine(KEY_DIRS, D(1)) \o SettingLine(KEY_FRAMES, D(1))
           \o SettingLine(KEY_CUSTOM, END_DMI)
      [] kind = "untabbed" ->
           SettingLine(KEY_DIRS, D(1)) \o SettingLine(KEY_FRAMES, D(1))
           \o SettingLine(Tail(KEY_CUSTOM), D(42))
      [] kind = "quoted" ->
           SettingLine(KEY_DIRS, D(1)) \o SettingLine(KEY_FRAMES, D(1))
           \o SettingLine(KEY_CUSTOM, <<97, 34, 98>>)
      [] kind = "backslash" ->
           SettingLine(KEY_DIRS, D(1)) \o SettingLine(KEY_FRAMES, D(1))
           \o SettingLine(KEY_CUSTOM, <<97, 92, 98>>)
      [] kind = "spaced" ->
           SettingLine(KEY_DIRS, D(1)) \o SettingLine(KEY_FRAMES, D(1))
           \o SettingLine(KEY_CUSTOM, <<97, 32, 98>>)
      [] kind = "tabbed" ->
           SettingLine(KEY_DIRS, D(1)) \o SettingLine(KEY_FRAMES, D(1))
           \o SettingLine(KEY_CUSTOM, <<97, 9, 98>>)
      [] kind = "equals" ->
           SettingLine(KEY_DIRS, D(1)) \o SettingLine(KEY_FRAMES, D(1))
           \o SettingLine(KEY_CUSTOM, <<97, 61, 98>>)
      [] kind = "quoted_dirs" ->
           SettingLine(KEY_DIRS, QUOTE \o D(1) \o QUOTE) \o SettingLine(KEY_FRAMES, D(1))
      [] kind = "spaced_frames" ->
           SettingLine(KEY_DIRS, D(1)) \o SettingLine(KEY_FRAMES, D(1) \o <<32>>)

\* at most this many states in a manifest
MaxStates == 2

\* manifests: one block of any kind among plain blocks
BlockSeqs ==
    {[i \in 1..n |-> IF i = at THEN kind ELSE "plain"] :
        n \in 1..MaxStates, at \in 1..MaxStates, kind \in BlockKinds}

\* the k-th state is named "a", "b", ...
StateName(k) == <<96 + k>>

RECURSIVE BlocksText(_, _)
BlocksText(kinds, k) ==
    IF k > Len(kinds) THEN <<>>
    ELSE KEY_STATE \o EQ \o QUOTE \o StateName(k) \o QUOTE \o NL
         \o BlockLines(kinds[k]) \o BlocksText(kinds, k + 1)

\* tiles are 2 pixels wide and 1 pixel high
TileSize == [width |-> 2, height |-> 1]

ManifestText(kinds) ==
    BEGIN_DMI \o NL
    \o SettingLine(KEY_VERSION, <<52, 46, 48>>)
    \o SettingLine(KEY_WIDTH, D(TileSize.width))
    \o SettingLine(KEY_HEIGHT, D(TileSize.height))
    \o BlocksText(kinds, 1)
    \o END_DMI \o NL

\* the sheet: 3 tiles per row, 2 rows, every pixel different
SheetGrid == [cols |-> 3, rows |-> 2]

Sheet ==
    [width |-> SheetGrid.cols * TileSize.width, height |-> SheetGrid.rows * TileSize.height,
     px |-> [y \in 1..(SheetGrid.rows * TileSize.height) |->
               [x \in 1..(SheetGrid.cols * TileSize.width) |-> <<x, y, 7, 255>>]]]

SheetIdat == MkChunk(IDAT_TYPE, deflate_bytes_zlib(Scanlines(Sheet)))
SheetIhdr == MkChunk(IHDR_TYPE, IhdrData(Sheet.width, Sheet.height))

\* where the zTXt chunk goes
FileLayouts == {"canon", "after_text", "late", "none"}

DmiFile(kinds, layout) ==
    LET ztxt == RawZtxtChunk_save(create_ztxt_chunk(ManifestText(kinds)))
        text == MkChunk(TEXT_TYPE, <<97, 0, 98>>)
    IN  PNG_HEADER \o SheetIhdr
        \o (CASE layout = "canon" -> ztxt \o SheetIdat
              [] layout = "after_text" -> text \o ztxt \o SheetIdat
              [] layout = "late" -> SheetIdat \o ztxt
              [] layout = "none" -> text \o SheetIdat)
        \o IendBytes

DmiFiles == {DmiFile(kinds, layout) : kinds \in BlockSeqs, layout \in FileLayouts}

\* blocks with a line that is no plain "\tkey = value": a value holding the
\* trailer text, a line without its tab, values with a quote, a backslash,
\* a space, a tab or an equals sign
OddBlockKinds ==
    {"endvalue", "untabbed", "quoted", "backslash", "spaced", "tabbed", "equals",
     "quoted_dirs", "spaced_frames"}

OddBlockFiles ==
    {DmiFile(kinds, "canon") :
       kinds \in {<<kind>> : kind \in OddBlockKinds}
                  \cup {<<kind, "plain">> : kind \in OddBlockKinds}}

\* which of the width and height lines the header holds, and in which order
HeaderForms == {"bare", "width_only", "height_only", "swapped"}

HeaderLines(form) ==
    CASE form = "bare" -> <<>>
      [] form = "width_only" -> SettingLine(KEY_WIDTH, D(TileSize.width))
      [] form = "height_only" -> SettingLine(KEY_HEIGHT, D(TileSize.height))
      [] form = "swapped" ->
           SettingLine(KEY_HEIGHT, D(TileSize.height))
           \o SettingLine(KEY_WIDTH, D(TileSize.width))

\* one tile of the size the header form stands for, 32 for a missing line
HeaderImage(form) ==
    new_rgba8(IF form \in {"bare", "height_only"} THEN 32 ELSE TileSize.width,
              IF form \in {"bare", "width_only"} THEN 32 ELSE TileSize.height)

\* a DMI of one plain state whose header has the given form
HeaderFile(form) ==
    PNG_HEADER
    \o MkChunk(IHDR_TYPE, IhdrData(HeaderImage(form).width, HeaderImage(form).height))
    \o RawZtxtChunk_save(create_ztxt_chunk(
           BEGIN_DMI \o NL
           \o SettingLine(KEY_VERSION, <<52, 46, 48>>)
           \o HeaderLines(form)
           \o BlocksText(<<"plain">>, 1)
           \o END_DMI \o NL))
    \o MkChunk(IDAT_TYPE, deflate_bytes_zlib(Scanlines(HeaderImage(form))))
    \o IendBytes

HeaderFiles == {HeaderFile(form) : form \in HeaderForms}

(***************************************************************************)
(* Specification SpecIcon: load, load_meta, save and load_meta again       *)
(***************************************************************************)
InitIcon ==
    /\ pc = "load"
    /\ build \in {"debug", "release"}
    /\ input \in DmiFiles \cup HeaderFiles \cup OddBlockFiles
    /\ raw = NotRun /\ rawMeta = NotRun /\ rawOut = NotRun
    /\ icon = NotRun /\ meta = NotRun /\ saved = NotRun
    /\ reMeta = NotRun /\ reIcon = NotRun
    /\ query = None /\ got = NotRun
    /\ withZtxt = TRUE
    /\ rawChunk = NotRun /\ chunkOut = NotRun /\ ztxtOut = NotRun /\ walk = None

\* Icon::load(&input[..])
IconLoad ==
    /\ pc = "load"
    /\ icon' = Icon_load(build, input)
    /\ pc' = "load_meta"
    /\ UNCHANGED <<build, input, raw, rawMeta, rawOut, meta, saved, reMeta, reIcon, query, got,
                   withZtxt, rawChunk, chunkOut, ztxtOut, walk>>

\* Icon::load_meta(Cursor::new(input))
IconLoadMeta ==
    /\ pc = "load_meta"
    /\ meta' = Icon_load_meta(build, input)
    /\ pc' = "save"
    /\ UNCHANGED <<build, input, raw, rawMeta, rawOut, icon, saved, reMeta, reIcon, query, got,
                   withZtxt, rawChunk, chunkOut, ztxtOut, walk>>

\* icon.save(&mut vec) on the loaded Icon
IconSave ==
    /\ pc = "save"
    /\ IsOk(icon)
    /\ \E rev \in BOOLEAN : saved' = Icon_save(build, icon.val, rev)
    /\ pc' = "reload_meta"
    /\ UNCHANGED <<build, input, raw, rawMeta, rawOut, icon, meta, reMeta, reIcon, query, got,
                   withZtxt, rawChunk, chunkOut, ztxtOut, walk>>

\* Icon::load_meta(Cursor::new(saved bytes))
IconReloadMeta ==
    /\ pc = "reload_meta"
    /\ IsOk(saved)
    /\ reMeta' = Icon_load_meta(build, saved.val)
    /\ pc' = "reload"
    /\ UNCHANGED <<build, input, raw, rawMeta, rawOut, icon, meta, saved, reIcon, query, got,
                   withZtxt, rawChunk, chunkOut, ztxtOut, walk>>

\* Icon::load(&saved bytes[..])
IconReload ==
    /\ pc = "reload"
    /\ IsOk(saved)
    /\ reIcon' = Icon_load(build, saved.val)
    /\ pc' = "done"
    /\ UNCHANGED <<build, input, raw, rawMeta, rawOut, icon, meta, saved, reMeta, query, got,
                   withZtxt, rawChunk, chunkOut, ztxtOut, walk>>

NextIcon == IconLoad \/ IconLoadMeta \/ IconSave \/ IconReloadMeta \/ IconReload

SpecIcon == InitIcon /\ [][NextIcon]_vars

(***************************************************************************)
(* Icons built in memory and handed to Icon::save                          *)
(***************************************************************************)
\* the t-th tile of the k-th state: no two pixels of an icon are the same
Tile(k, t) ==
    [width |-> TileSize.width, height |-> TileSize.height,
     px |-> [y \in 1..TileSize.height |-> [x \in 1..TileSize.width |-> <<k, t, x, 255>>]]]

Tiles(k, n) == [t \in 1..n |-> Tile(k, t)]

One == [int |-> 1, frac |-> <<>>]
Half == [int |-> 0, frac |-> <<53>>]

StateKinds ==
    {"plain", "dirs4", "anim", "anim_dirs", "empty", "nodelay", "shortdelay",
     "longdelay", "missing", "extra", "overflow", "hotspot"}

\* the k-th state of an icon, of the given kind
StateOf(kind, k) ==
    LET base == [name |-> StateName(k), dirs |-> 1, frames |-> 1, images |-> Tiles(k, 1),
                 delay |-> None, loop_flag |-> Indefinitely, rewind |-> FALSE,
                 movement |-> FALSE, hotspot |-> None, unknown_settings |-> None]
    IN  CASE kind = "plain" -> base
          [] kind = "dirs4" -> [base EXCEPT !.dirs = 4, !.images = Tiles(k, 4)]
          [] kind = "anim" ->
               [base EXCEPT !.frames = 2, !.images = Tiles(k, 2),
                            !.delay = Some(<<One, Half>>), !.loop_flag = Some(2),
                            !.rewind = TRUE]
          [] kind = "anim_dirs" ->
               [base EXCEPT !.dirs = 2, !.frames = 2, !.images = Tiles(k, 4),
                            !.delay = Some(<<One, One>>), !.movement = TRUE]
          [] kind = "empty" -> [base EXCEPT !.frames = 0, !.images = <<>>]
          [] kind = "nodelay" -> [base EXCEPT !.frames = 2, !.images = Tiles(k, 2)]
          [] kind = "shortdelay" ->
               [base EXCEPT !.frames = 2, !.images = Tiles(k, 2), !.delay = Some(<<One>>)]
          [] kind = "longdelay" ->
               [base EXCEPT !.frames = 2, !.images = Tiles(k, 2),
                            !.delay = Some(<<One, One, One>>)]
          [] kind = "missing" ->
               [base EXCEPT !.frames = 2, !.images = Tiles(k, 1), !.delay = Some(<<One, One>>)]
          [] kind = "extra" -> [base EXCEPT !.images = Tiles(k, 2)]
          [] kind = "overflow" ->
               [base EXCEPT !.dirs = 4, !.frames = 1073741824, !.images = <<>>]
          [] kind = "hotspot" -> [base EXCEPT !.hotspot = Some([x |-> 1, y |-> 0])]
          [] kind = "escname" -> [base EXCEPT !.name = <<92, 34, 96 + k>>]
          [] kind = "still_loop" -> [base EXCEPT !.loop_flag = Some(3)]
          [] kind = "dirs8" -> [base EXCEPT !.dirs = 8, !.images = Tiles(k, 8)]
          [] kind = "anim_dirs4" ->
               [base EXCEPT !.dirs = 4, !.frames = 2, !.images = Tiles(k, 8),
                            !.delay = Some(<<One, One>>)]
          [] kind = "anim_dirs8" ->
               [base EXCEPT !.dirs = 8, !.frames = 3, !.images = Tiles(k, 24),
                            !.delay = Some(<<One, One, One>>)]
          [] kind = "custom2" ->
               [base EXCEPT !.unknown_settings =
                  Some(map_insert(map_insert(EmptyMap, KEY_CUSTOM, <<52, 50>>),
                                  KEY_OTHER, <<55>>))]

StateSeqs == UNION {[1..n -> StateKinds] : n \in 1..MaxStates}

\* further icons: no state at all, and one or two states of a rarer kind
\* (a name with a backslash and a quote, a loop count on a still state,
\* eight directions, two unknown settings)
RareKinds == {"escname", "still_loop", "dirs8", "custom2"}

RareSeqs ==
    {<<>>} \cup {<<kind>> : kind \in RareKinds}
    \cup {<<kind, other>> : kind \in RareKinds, other \in {"plain", "anim", "dirs8"}}

IconOf(kinds) ==
    [version |-> <<52, 46, 48>>, width |-> TileSize.width, height |-> TileSize.height,
     states |-> [k \in 1..Len(kinds) |-> StateOf(kinds[k], k)]]

(***************************************************************************)
(* Specification SpecSave: save an icon built in memory, load it again     *)
(***************************************************************************)
InitSave ==
    /\ pc = "save"
    /\ build \in {"debug", "release"}
    /\ input = <<>>
    /\ raw = NotRun /\ rawMeta = NotRun /\ rawOut = NotRun
    /\ icon \in {Ok(IconOf(kinds)) : kinds \in StateSeqs \cup RareSeqs}
    /\ meta = NotRun /\ saved = NotRun
    /\ reMeta = NotRun /\ reIcon = NotRun
    /\ query = None /\ got = NotRun
    /\ withZtxt = TRUE
    /\ rawChunk = NotRun /\ chunkOut = NotRun /\ ztxtOut = NotRun /\ walk = None

NextSave == IconSave \/ IconReloadMeta \/ IconReload

SpecSave == InitSave /\ [][NextSave]_vars

(***************************************************************************)
(* Properties of the chunk engine                                          *)
(***************************************************************************)
\* C2: RawDmi byte round-trip: whenever RawDmi::load accepts the input,
\* RawDmi::save of the unmodified result (zTXt included) writes exactly the
\* input bytes, for every chunk layout load accepts.
C2_RawRoundTrip ==
    (IsOk(raw) /\ IsOk(rawOut) /\ withZtxt) => rawOut.val = input

\* some chunk up to IEND, framed inside the stream, states a CRC that is
\* not the CRC-32 of its type and data
RECURSIVE StatedCrcDiffers(_, _)
StatedCrcDiffers(bytes, index) ==
    IF index + 12 > Len(bytes) THEN FALSE
    ELSE LET len == from_be_bytes(Slice(bytes, index, index + 4))
             end == index + 12 + len
         IN  IF end > Len(bytes) THEN FALSE
             ELSE \/ Slice(bytes, end - 4, end)
                       # calculate_crc(Slice(bytes, index + 4, end - 4))
                  \/ /\ Slice(bytes, index + 4, index + 8) # IEND_TYPE
                     /\ StatedCrcDiffers(bytes, end)

\* C3: CRC enforcement: when a chunk of a stream with a good signature
\* states a CRC other than the CRC-32 of its type and data, RawDmi::load
\* fails and the error is of the CrcMismatch kind.
C3_CrcMismatchKind ==
    (/\ pc # "raw_load"
     /\ Len(input) >= 72
     /\ Slice(input, 0, 8) = PNG_HEADER
     /\ StatedCrcDiffers(input, 8))
    => (IsErr(raw) /\ raw.kind = "CrcMismatch")

(***************************************************************************)
(* Properties of Icon::load, Icon::load_meta and Icon::save                *)
(***************************************************************************)
\* an Icon without its images
StripImages(i) ==
    [i EXCEPT !.states = [k \in 1..Len(i.states) |-> [i.states[k] EXCEPT !.images = <<>>]]]

\* the stream has a zTXt chunk before its first IDAT chunk
RECURSIVE ZtxtBeforeIdat(_, _)
ZtxtBeforeIdat(bytes, index) ==
    IF index + 12 > Len(bytes) THEN FALSE
    ELSE LET len == from_be_bytes(Slice(bytes, index, index + 4))
             type == Slice(bytes, index + 4, index + 8)
         IN  IF type = ZTXT_TYPE THEN TRUE
             ELSE IF type = IDAT_TYPE \/ type = IEND_TYPE THEN FALSE
             ELSE ZtxtBeforeIdat(bytes, index + 12 + len)

\* every animated state states one delay per frame
DelaysMatch(i) ==
    \A k \in 1..Len(i.states) :
        i.states[k].frames > 1 =>
            /\ i.states[k].delay # None
            /\ Len(Unwrap(i.states[k].delay)) = i.states[k].frames

\* C1: Metadata round-trip: when Icon::load succeeds on a well-formed DMI
\* (zTXt before IDAT, one delay per frame of every animated state),
\* Icon::save of the loaded Icon succeeds and Icon::load_meta of the saved
\* bytes yields the same version, width, height and states (all settings,
\* unknown ones included) as Icon::load returned.
C1_MetaRoundTrip ==
    (IsOk(icon) /\ ZtxtBeforeIdat(input, 8) /\ DelaysMatch(icon.val))
    => /\ saved # NotRun => IsOk(saved)
       /\ reMeta # NotRun => (IsOk(reMeta) /\ reMeta.val = StripImages(icon.val))

\* C4: load_meta agrees with load: whenever Icon::load succeeds on the
\* input, Icon::load_meta succeeds on it too and returns the same Icon with
\* every state's images list empty.
C4_MetaAgrees ==
    (IsOk(icon) /\ meta # NotRun)
    => (IsOk(meta) /\ meta.val = StripImages(icon.val))

MissingZtxt(r) ==
    /\ IsErr(r)
    /\ r.msg \in {"Error loading icon: no zTXt chunk found.",
                  "zTXt chunk was not found or is after the first IDAT chunk"}

\* C5: Missing zTXt: an input without a zTXt chunk before its first IDAT
\* (none at all, or one placed only after an IDAT) is rejected with a
\* missing-zTXt error by Icon::load and by Icon::load_meta.
C5_MissingZtxt ==
    ~ZtxtBeforeIdat(input, 8)
    => /\ icon # NotRun => MissingZtxt(icon)
       /\ meta # NotRun => MissingZtxt(meta)

\* the exact sum of dirs * frames over the states from k on is at most
\* remaining, computed without forming a product larger than remaining
RECURSIVE TilesFit(_, _, _)
TilesFit(states, k, remaining) ==
    IF k > Len(states) THEN TRUE
    ELSE IF states[k].dirs = 0 THEN TilesFit(states, k + 1, remaining)
    ELSE /\ states[k].frames <= remaining \div states[k].dirs
         /\ TilesFit(states, k + 1, remaining - states[k].dirs * states[k].frames)

GeometryHolds(r) ==
    IsOk(r) =>
        /\ Sheet.width % r.val.width = 0
        /\ Sheet.height % r.val.height = 0
        /\ TilesFit(r.val.states, 1,
                    (Sheet.width \div r.val.width) * (Sheet.height \div r.val.height))

\* C6: Geometry invariant on load: every Icon returned by Icon::load or
\* Icon::load_meta has a tile size dividing the image size and states whose
\* dirs * frames, summed as exact integers, is at most the number of tiles
\* the image holds.
C6_Geometry == GeometryHolds(icon) /\ GeometryHolds(meta)

\* the number of tiles of the states before the k-th
RECURSIVE TilesBefore(_, _)
TilesBefore(states, k) ==
    IF k <= 1 THEN 0
    ELSE TilesBefore(states, k - 1) + states[k - 1].dirs * states[k - 1].frames

\* the w x h sub-image of img at origin (x, y), read pixel by pixel
SubImage(img, x, y, w, h) ==
    [width |-> w, height |-> h,
     px |-> [row \in 1..h |-> [col \in 1..w |-> img.px[y + row][x + col]]]]

RECURSIVE TileCount(_, _)
TileCount(states, k) ==
    IF k > Len(states) THEN 0 ELSE Len(states[k].images) + TileCount(states, k + 1)

\* C8: Tile round-trip through save then load: for an icon with at least
\* one tile that Icon::save accepts, Icon::load of the saved bytes succeeds
\* and returns every state's images in the same order with the same pixels.
C8_TileRoundTrip ==
    (IsOk(icon) /\ input = <<>> /\ IsOk(saved) /\ reIcon # NotRun
     /\ TileCount(icon.val.states, 1) >= 1)
    => /\ IsOk(reIcon)
       /\ Len(reIcon.val.states) = Len(icon.val.states)
       /\ \A k \in 1..Len(icon.val.states) :
            reIcon.val.states[k].images = icon.val.states[k].images

\* five tiles saved on a 3 x 2 atlas and loaded again
C8_Witness ==
    /\ IsOk(icon) /\ input = <<>> /\ IsOk(saved) /\ IsOk(reIcon)
    /\ TileCount(icon.val.states, 1) = 5
    /\ Len(reIcon.val.states) = 2

\* images.len() differs from dirs * frames as exact integers
CountDiffers(state) ==
    IF state.dirs = 0 THEN Len(state.images) # 0
    ELSE \/ Len(state.images) % state.dirs # 0
         \/ state.frames # Len(state.images) \div state.dirs

\* C9: Icon::save fails with the Generic error of its image count check
\* whenever some state has images.len() different from dirs * frames, for
\* every u8 dirs, u32 frames and image count.
C9_CountCheck ==
    (IsOk(icon) /\ saved # NotRun
     /\ \E k \in 1..Len(icon.val.states) : CountDiffers(icon.val.states[k]))
    => /\ IsErr(saved)
       /\ saved.kind = "Generic"
       /\ saved.msg = "number of images differs from the stated metadata"

\* C10: for every state with frames > 1, Icon::save fails unless the state
\* has a delay list whose length equals frames.
C10_DelayCheck ==
    (IsOk(icon) /\ IsOk(saved)) => DelaysMatch(icon.val)

\* a save refused for a delay list of another length than frames
C10_Witness ==
    /\ IsOk(icon) /\ ~DelaysMatch(icon.val)
    /\ IsErr(saved)
    /\ saved.msg = "number of frames differs from the delay entry"

(***************************************************************************)
(* Properties of the manifest text                                         *)
(***************************************************************************)
\* the manifest lines inside a DMI byte stream (<<>> when there are none)
ManifestOf(bytes) ==
    Let(RawDmi_load(bytes), LAMBDA r :
      IF ~IsOk(r) \/ r.val.chunk_ztxt = None THEN <<>>
      ELSE Let(Icon_manifest_lines(Unwrap(r.val.chunk_ztxt)), LAMBDA t :
             IF IsOk(t) THEN t.val ELSE <<>>))

HasLine(text, line) == \E i \in 1..Len(text) : text[i] = line

\* a name with every backslash doubled and every quote behind a backslash
RECURSIVE Escaped(_)
Escaped(name) ==
    IF name = <<>> THEN <<>>
    ELSE (IF Head(name) = 92 THEN <<92, 92>>
          ELSE IF Head(name) = 34 THEN <<92, 34>>
          ELSE <<Head(name)>>) \o Escaped(Tail(name))

NeedsEscape(name) == \E i \in 1..Len(name) : name[i] \in {92, 34}

\* C11: State-name escaping: for a state name with a backslash or a double
\* quote, the manifest Icon::save writes holds the name with each backslash
\* doubled and each quote written as backslash-quote, and loading the saved
\* bytes (Icon::load, Icon::load_meta) yields the original name.
C11_NameEscaping ==
    (IsOk(icon) /\ input = <<>> /\ IsOk(saved)) =>
      \A k \in 1..Len(icon.val.states) :
        NeedsEscape(icon.val.states[k].name) =>
          /\ HasLine(ManifestOf(saved.val),
                     KEY_STATE \o EQ \o QUOTE \o Escaped(icon.val.states[k].name) \o QUOTE)
          /\ reMeta # NotRun =>
               (IsOk(reMeta) /\ reMeta.val.states[k].name = icon.val.states[k].name)
          /\ reIcon # NotRun =>
               (IsOk(reIcon) /\ reIcon.val.states[k].name = icon.val.states[k].name)

\* the line "\tcustom = 42"
CustomLine == KEY_CUSTOM \o EQ \o <<52, 50>>

\* C12: Unknown attribute keys: the line tab + "custom = 42" of a state is
\* stored in unknown_settings under the tab-prefixed key with the raw value,
\* Icon::save emits the same line again, and loading the saved bytes yields
\* the same unknown_settings.
C12_UnknownVerbatim ==
    (IsOk(icon) /\ ZtxtBeforeIdat(input, 8) /\ HasLine(ManifestOf(input), CustomLine)) =>
      /\ \E k \in 1..Len(icon.val.states) :
           icon.val.states[k].unknown_settings
             = Some(map_insert(EmptyMap, KEY_CUSTOM, <<52, 50>>))
      /\ saved # NotRun =>
           (IsOk(saved) /\ HasLine(ManifestOf(saved.val), CustomLine))
      /\ reMeta # NotRun =>
           /\ IsOk(reMeta)
           /\ \A k \in 1..Len(icon.val.states) :
                reMeta.val.states[k].unknown_settings
                  = icon.val.states[k].unknown_settings

\* the states whose block holds the given setting line: the state lines
\* before the line's position are counted
RECURSIVE StateOfLine(_, _, _)
StateOfLine(text, i, line) ==
    IF i > Len(text) THEN 0
    ELSE IF text[i] = line
    THEN Cardinality({j \in 1..i : starts_with(text[j], STATE_EQ_QUOTE)})
    ELSE StateOfLine(text, i + 1, line)

LoopLine(n) == KEY_LOOP \o EQ \o to_string(n)

\* the result r, a load of the input, holds loop_flag v in the state whose
\* block has the line "\tloop = n"
LoopParsed(r, n, v) ==
    HasLine(ManifestOf(input), LoopLine(n)) =>
      /\ IsOk(r)
      /\ r.val.states[StateOfLine(ManifestOf(input), 1, LoopLine(n))].loop_flag = v

\* C13: Parsing the loop attribute: a state line "\tloop = 0" makes
\* Icon::load and Icon::load_meta succeed with loop_flag = Indefinitely, and
\* "\tloop = n" with n > 0 yields loop_flag = NTimes(n).
C13_LoopParsed ==
    (ZtxtBeforeIdat(input, 8) /\ pc \notin {"load", "load_meta"}) =>
      /\ LoopParsed(icon, 0, Indefinitely) /\ LoopParsed(meta, 0, Indefinitely)
      /\ \A n \in 2..3 : LoopParsed(icon, n, Some(n)) /\ LoopParsed(meta, n, Some(n))

\* the indices of the lines of the k-th state's block
BlockOfState(text, k) ==
    {i \in 1..Len(text) :
        /\ ~starts_with(text[i], STATE_EQ_QUOTE)
        /\ ~contains(text[i], END_DMI)
        /\ Cardinality({j \in 1..i : starts_with(text[j], STATE_EQ_QUOTE)}) = k}

\* the manifest's block of state k holds the loop line the flag asks for
LoopEmitted(text, k, loop_flag) ==
    IF loop_flag = Indefinitely
    THEN \A i \in BlockOfState(text, k) : ~starts_with(text[i], KEY_LOOP \o EQ)
    ELSE \E i \in BlockOfState(text, k) : text[i] = LoopLine(Unwrap(loop_flag))

\* C14: Emitting the loop attribute: for every state Icon::save writes the
\* line "\tloop = n" when loop_flag = NTimes(n) and no loop line when it is
\* Indefinitely, and loading the saved bytes yields the same loop_flag, for
\* any frames value.
C14_LoopEmitted ==
    (IsOk(icon) /\ input = <<>> /\ IsOk(saved)) =>
      \A k \in 1..Len(icon.val.states) :
        /\ LoopEmitted(ManifestOf(saved.val), k, icon.val.states[k].loop_flag)
        /\ reIcon # NotRun =>
             /\ IsOk(reIcon)
             /\ reIcon.val.states[k].loop_flag = icon.val.states[k].loop_flag

HotspotLine(h) ==
    KEY_HOTSPOT \o EQ \o to_string(h.x) \o COMMA \o to_string(h.y) \o COMMA \o <<49>>

\* the number of comma-separated components of a value: its commas and one
Components(value) == Cardinality({i \in 1..Len(value) : value[i] = 44}) + 1

\* some hotspot line of the text has a value of other than three components
BadHotspot(text) ==
    \E i \in 1..Len(text) :
        /\ starts_with(text[i], KEY_HOTSPOT \o EQ)
        /\ Components(SubSeq(text[i], Len(KEY_HOTSPOT \o EQ) + 1, Len(text[i]))) # 3

\* C15: Hotspot round-trip: Icon::save emits a state's hotspot {x, y} as the
\* line "\thotspot = x,y,1", parsing that line yields hotspot {x, y}, and a
\* hotspot value without exactly three comma-separated components is
\* rejected by Icon::load and Icon::load_meta.
C15_Hotspot ==
    /\ (ZtxtBeforeIdat(input, 8) /\ BadHotspot(ManifestOf(input))) =>
         /\ icon # NotRun => IsErr(icon)
         /\ meta # NotRun => IsErr(meta)
    /\ (IsOk(icon) /\ IsOk(saved)) =>
         \A k \in 1..Len(icon.val.states) :
           icon.val.states[k].hotspot # None =>
             /\ \E i \in BlockOfState(ManifestOf(saved.val), k) :
                  ManifestOf(saved.val)[i] = HotspotLine(Unwrap(icon.val.states[k].hotspot))
             /\ reMeta # NotRun =>
                  /\ IsOk(reMeta)
                  /\ reMeta.val.states[k].hotspot = icon.val.states[k].hotspot

\* the lines of a manifest between its version line and its first state
\* line or trailer
RECURSIVE GeometryLines(_, _)
GeometryLines(text, i) ==
    IF i > Len(text) \/ starts_with(text[i], STATE_EQ_QUOTE) \/ contains(text[i], END_DMI)
    THEN <<>>
    ELSE <<text[i]>> \o GeometryLines(text, i + 1)

\* the lines are zero, one or both of a width and a height line, in either
\* order, but not the width line followed by the height line
OptionalForm(geometry) ==
    /\ Len(geometry) <= 2
    /\ \A i \in 1..Len(geometry) :
         starts_with(geometry[i], KEY_WIDTH \o EQ) \/ starts_with(geometry[i], KEY_HEIGHT \o EQ)
    /\ Len(geometry) = 2 =>
         (starts_with(geometry[1], KEY_HEIGHT \o EQ) /\ starts_with(geometry[2], KEY_WIDTH \o EQ))

\* the number a geometry line of the key states, 32 when there is none
StatedOr32(geometry, key) ==
    IF \E i \in 1..Len(geometry) : starts_with(geometry[i], key \o EQ)
    THEN LET i == CHOOSE i \in 1..Len(geometry) : starts_with(geometry[i], key \o EQ)
         IN  DigitsValue(SubSeq(geometry[i], Len(key \o EQ) + 1, Len(geometry[i])), 1, 0)
    ELSE 32

HeaderAccepted(r, geometry) ==
    r # NotRun =>
      /\ IsOk(r)
      /\ r.val.width = StatedOr32(geometry, KEY_WIDTH)
      /\ r.val.height = StatedOr32(geometry, KEY_HEIGHT)

\* C16: Optional header geometry: a manifest with zero, one or both of the
\* width and height lines after the version line, in either order, is
\* accepted by Icon::load and Icon::load_meta, with 32 for an omitted field.
C16_OptionalGeometry ==
    (ZtxtBeforeIdat(input, 8) /\ Len(ManifestOf(input)) >= 2
     /\ OptionalForm(GeometryLines(ManifestOf(input), 3))) =>
      /\ HeaderAccepted(icon, GeometryLines(ManifestOf(input), 3))
      /\ HeaderAccepted(meta, GeometryLines(ManifestOf(input), 3))

DirsValid(r) ==
    IsOk(r) => \A k \in 1..Len(r.val.states) : r.val.states[k].dirs \in {1, 4, 8}

\* C17: dirs validation: Icon::load and Icon::load_meta reject every state
\* whose dirs is not one of 1, 4, 8, so every IconState they return has dirs
\* in {1, 4, 8}.
C17_DirsValid == input # <<>> => (DirsValid(icon) /\ DirsValid(meta))

(***************************************************************************)
(* Properties of the atlas Icon::save writes                               *)
(***************************************************************************)
\* C18: Zero-state save: for an Icon with an empty states list Icon::save
\* writes an atlas of exactly 1 x 1 cells (width x height pixels).
C18_ZeroStateAtlas ==
    (IsOk(icon) /\ input = <<>> /\ icon.val.states = <<>> /\ saved # NotRun) =>
      /\ IsOk(saved)
      /\ Let(png_decode(saved.val), LAMBDA atlas :
           /\ IsOk(atlas)
           /\ atlas.val.width = icon.val.width
           /\ atlas.val.height = icon.val.height)

\* C19: Atlas shape: for n >= 1 tiles the atlas Icon::save writes has
\* cell_width = ceil(sqrt(n)) columns and cell_height = ceil(n / cell_width)
\* rows of cells; every tile index below n lies in a row of the atlas and
\* the last row is not empty.
C19_AtlasShape ==
    (IsOk(icon) /\ input = <<>> /\ IsOk(saved) /\ TileCount(icon.val.states, 1) >= 1) =>
      Let(png_decode(saved.val), LAMBDA atlas :
      Let(TileCount(icon.val.states, 1), LAMBDA n :
        /\ IsOk(atlas)
        /\ atlas.val.width % icon.val.width = 0
        /\ atlas.val.height % icon.val.height = 0
        /\ Let(atlas.val.width \div icon.val.width, LAMBDA cell_width :
           Let(atlas.val.height \div icon.val.height, LAMBDA cell_height :
             /\ (cell_width - 1) * (cell_width - 1) < n /\ n <= cell_width * cell_width
             /\ (cell_height - 1) * cell_width < n /\ n <= cell_height * cell_width
             /\ \A i \in 0..(n - 1) : i \div cell_width < cell_height))))

\* an atlas of nine tiles or more was written
C19_Witness ==
    /\ IsOk(icon) /\ input = <<>> /\ IsOk(saved)
    /\ TileCount(icon.val.states, 1) >= 9
    /\ png_decode(saved.val).val.width = 3 * icon.val.width

(***************************************************************************)
(* dirs.rs and icon.rs: directions and IconState::get_image                *)
(***************************************************************************)
\* Dirs is a set of the four bits NORTH, SOUTH, EAST, WEST held in a u8
NORTH == 1
SOUTH == 2
EAST == 4
WEST == 8
SOUTHEAST == 6
SOUTHWEST == 10
NORTHEAST == 5
NORTHWEST == 9

CARDINAL_DIRS == <<NORTH, SOUTH, EAST, WEST>>

ALL_DIRS == <<NORTH, SOUTH, EAST, WEST, NORTHEAST, NORTHWEST, SOUTHEAST, SOUTHWEST>>

\* [Dirs]::contains
dirs_contains(list, dir) == \E i \in 1..Len(list) : list[i] = dir

dir_to_dmi_index(dir) ==
    CASE dir = SOUTH -> Some(0)
      [] dir = NORTH -> Some(1)
      [] dir = EAST -> Some(2)
      [] dir = WEST -> Some(3)
      [] dir = SOUTHEAST -> Some(4)
      [] dir = SOUTHWEST -> Some(5)
      [] dir = NORTHEAST -> Some(6)
      [] dir = NORTHWEST -> Some(7)
      [] OTHER -> None

\* (idx + 1) * frame as usize - 1 in usize arithmetic: for frame = 0 the
\* subtraction underflows, which panics with overflow checks and wraps to
\* usize::MAX (an index no Vec has) without them
get_image_idx(bld, idx, frame) ==
    IF (idx + 1) * frame = 0
    THEN IF bld = "debug" THEN Panic("attempt to subtract with overflow") ELSE Ok(None)
    ELSE Ok(Some((idx + 1) * frame - 1))

IconState_get_image(bld, self, dir, frame) ==
    IF self.frames < frame
    THEN Err("IconState", "Specified frame is larger than the number of frames")
    ELSE IF \/ (self.dirs = 1 /\ dir # SOUTH)
            \/ (self.dirs = 4 /\ ~dirs_contains(CARDINAL_DIRS, dir))
            \/ (self.dirs = 8 /\ ~dirs_contains(ALL_DIRS, dir))
    THEN Err("IconState", "Dir specified is not in the set of valid dirs")
    ELSE IF dir_to_dmi_index(dir) = None
    THEN Err("IconState", "Dir specified is not a valid dir within DMI ordering")
    ELSE Then(get_image_idx(bld, Unwrap(dir_to_dmi_index(dir)), frame), LAMBDA image_idx :
           IF image_idx # None /\ Unwrap(image_idx) < Len(self.images)
           THEN Ok(self.images[Unwrap(image_idx) + 1])
           ELSE Err("IconState", "Out of bounds index"))

(***************************************************************************)
(* Specification SpecGet: one tile of one state of an icon is looked up    *)
(***************************************************************************)
\* the frame numbers asked for
Frames == 0..3

\* every value of the four direction bits
DirBits == 0..15

GetSeqs ==
    {<<kind>> : kind \in {"plain", "dirs4", "dirs8", "anim", "anim_dirs", "empty",
                          "anim_dirs4", "anim_dirs8"}}

InitGet ==
    /\ pc = "get"
    /\ build \in {"debug", "release"}
    /\ input = <<>>
    /\ raw = NotRun /\ rawMeta = NotRun /\ rawOut = NotRun
    /\ icon \in {Ok(IconOf(kinds)) : kinds \in GetSeqs}
    /\ meta = NotRun /\ saved = NotRun
    /\ reMeta = NotRun /\ reIcon = NotRun
    /\ query = None /\ got = NotRun
    /\ withZtxt = TRUE
    /\ rawChunk = NotRun /\ chunkOut = NotRun /\ ztxtOut = NotRun /\ walk = None

\* icon.states[k].get_image(&dir, frame)
GetImage ==
    /\ pc = "get"
    /\ \E k \in 1..Len(icon.val.states), dir \in DirBits, frame \in Frames :
         /\ query' = Some([state |-> k, dir |-> dir, frame |-> frame])
         /\ got' = IconState_get_image(build, icon.val.states[k], dir, frame)
    /\ pc' = "done"
    /\ UNCHANGED <<build, input, raw, rawMeta, rawOut, icon, meta, saved, reMeta, reIcon,
                   withZtxt, rawChunk, chunkOut, ztxtOut, walk>>

NextGet == GetImage

SpecGet == InitGet /\ [][NextGet]_vars

(***************************************************************************)
(* Properties of IconState::get_image                                      *)
(***************************************************************************)
\* the directions a state of the given dirs count may be asked for
valid_set(dirs) ==
    CASE dirs = 1 -> {SOUTH}
      [] dirs = 4 -> {NORTH, SOUTH, EAST, WEST}
      [] dirs = 8 -> {NORTH, SOUTH, EAST, WEST, SOUTHEAST, SOUTHWEST, NORTHEAST, NORTHWEST}
      [] OTHER -> {}

\* position of a direction in SOUTH, NORTH, EAST, WEST, SOUTHEAST,
\* SOUTHWEST, NORTHEAST, NORTHWEST, counted from 0
dir_ordinal(dir) ==
    CHOOSE i \in 0..7 :
      <<SOUTH, NORTH, EAST, WEST, SOUTHEAST, SOUTHWEST, NORTHEAST, NORTHWEST>>[i + 1] = dir

\* the lookup q on state self is in range: 1 <= frame <= frames, dir in the
\* valid set, and the tile index inside the tile list
InRange(self, q) ==
    /\ 1 <= q.frame /\ q.frame <= self.frames
    /\ q.dir \in valid_set(self.dirs)
    /\ (dir_ordinal(q.dir) + 1) * q.frame - 1 < Len(self.images)

\* C20: IconState::get_image(dir, frame) on a state of 1, 4 or 8 dirs: when
\* frame is in 1..frames and dir is in the valid set of the state's dirs, it
\* returns the tile at index (dir_ordinal + 1) * frame - 1; for every other
\* dir or frame, frame = 0 included, it returns an IconState error, never a
\* tile and never a panic.
C20_GetImage ==
    (got # NotRun /\ icon.val.states[Unwrap(query).state].dirs \in {1, 4, 8}) =>
      Let(icon.val.states[Unwrap(query).state], LAMBDA self :
      Let(Unwrap(query), LAMBDA q :
        IF InRange(self, q)
        THEN got = Ok(self.images[(dir_ordinal(q.dir) + 1) * q.frame])
        ELSE IsErr(got) /\ got.kind = "IconState"))

\* the same without the lookups of frame 0: the part of C20 the code keeps
C20_FromFrameOne ==
    (got # NotRun /\ icon.val.states[Unwrap(query).state].dirs \in {1, 4, 8}
       /\ Unwrap(query).frame >= 1) =>
      Let(icon.val.states[Unwrap(query).state], LAMBDA self :
      Let(Unwrap(query), LAMBDA q :
        IF InRange(self, q)
        THEN got = Ok(self.images[(dir_ordinal(q.dir) + 1) * q.frame])
        ELSE IsErr(got) /\ got.kind = "IconState"))

\* a tile other than the first was returned
C20_TileReached ==
    /\ IsOk(got)
    /\ icon.val.states[Unwrap(query).state].dirs = 8
    /\ Unwrap(query).dir = NORTHWEST
    /\ got.val = icon.val.states[Unwrap(query).state].images[8]

(***************************************************************************)
(* Properties of RawDmi::save                                              *)
(***************************************************************************)
\* C21: RawDmi::save(writer, include_ztxt), for both values of the flag and
\* every RawDmi that RawDmi::load returned, writes at most
\* output_buffer_size(include_ztxt) bytes.
C21_ByteBudget ==
    (IsOk(raw) /\ IsOk(rawOut)) =>
      Len(rawOut.val) <= output_buffer_size(raw.val, withZtxt)

\* the same for the values whose IHDR chunk has the 13 data bytes of a PNG
C21_BudgetOfPngIhdr ==
    (IsOk(raw) /\ IsOk(rawOut) /\ Len(raw.val.chunk_ihdr.data) = 13) =>
      Len(rawOut.val) = output_buffer_size(raw.val, withZtxt)

\* the chunks of a stream from offset index on, each as its bytes, cut by
\* the length fields
RECURSIVE ChunkList(_, _)
ChunkList(bytes, index) ==
    IF index + 12 > Len(bytes) THEN <<>>
    ELSE Let(from_be_bytes(Slice(bytes, index, index + 4)), LAMBDA n :
           <<Slice(bytes, index, Min(index + 12 + n, Len(bytes)))>>
           \o ChunkList(bytes, index + 12 + n))

\* the chunks of a list, each as the bytes it was loaded from
EachSaved(chunks) == [k \in 1..Len(chunks) |-> RawGenericChunk_save(chunks[k])]

\* the chunks save has to write for the value dmi, in order
SaveOrder(dmi, with) ==
    <<RawGenericChunk_save(dmi.chunk_ihdr)>>
    \o (IF with /\ IsSome(dmi.chunk_ztxt)
        THEN <<RawZtxtChunk_save(Unwrap(dmi.chunk_ztxt))>> ELSE <<>>)
    \o (IF IsSome(dmi.chunk_plte) THEN <<RawGenericChunk_save(Unwrap(dmi.chunk_plte))>> ELSE <<>>)
    \o (IF IsSome(dmi.other_chunks) THEN EachSaved(Unwrap(dmi.other_chunks)) ELSE <<>>)
    \o EachSaved(dmi.chunks_idat)
    \o <<RawIendChunk_save(dmi.chunk_iend)>>

\* a list without its entries that are zTXt chunks
RECURSIVE WithoutZtxt(_)
WithoutZtxt(list) ==
    IF list = <<>> THEN <<>>
    ELSE (IF Slice(Head(list), 4, 8) = ZTXT_TYPE THEN <<>> ELSE <<Head(list)>>)
         \o WithoutZtxt(Tail(list))

\* C24: RawDmi::save writes the 8-byte signature, then IHDR, zTXt (when
\* present and include_ztxt), PLTE when present, the other chunks in list
\* order, the IDATs in list order and IEND, and nothing else; with
\* include_ztxt = false the output is the output with include_ztxt = true
\* less its zTXt chunk.
C24_SaveOrder ==
    (IsOk(raw) /\ IsOk(rawOut)) =>
      /\ Slice(rawOut.val, 0, 8) = PNG_HEADER
      /\ ChunkList(rawOut.val, 8) = SaveOrder(raw.val, withZtxt)
      /\ Len(rawOut.val) = 8 + Len(Concat(SaveOrder(raw.val, withZtxt)))
      /\ ~withZtxt =>
           /\ \A k \in 1..Len(ChunkList(rawOut.val, 8)) :
                Slice(ChunkList(rawOut.val, 8)[k], 4, 8) # ZTXT_TYPE
           /\ ChunkList(rawOut.val, 8) = WithoutZtxt(ChunkList(RawDmi_save(raw.val, TRUE), 8))

\* a value with a zTXt, a PLTE, two other chunks and two IDATs, loaded from
\* a stream in another order, was saved without its zTXt
C24_Witness ==
    /\ IsOk(raw) /\ IsOk(rawOut) /\ ~withZtxt
    /\ IsSome(raw.val.chunk_ztxt) /\ IsSome(raw.val.chunk_plte)
    /\ IsSome(raw.val.other_chunks) /\ Len(Unwrap(raw.val.other_chunks)) = 2
    /\ Len(raw.val.chunks_idat) = 2
    /\ Slice(input, 12, 16) = IDAT_TYPE

(***************************************************************************)
(* Specification SpecChunk: one chunk is loaded and saved again            *)
(***************************************************************************)
ChunkTypes == {IHDR_TYPE, ZTXT_TYPE, TEXT_TYPE, IDAT_TYPE, IEND_TYPE}

\* chunk data: empty, without NUL, NUL last, NUL first, several NULs
ChunkDatas ==
    {<<>>, <<97>>, <<97, 98>>, <<0>>, <<97, 0>>, <<97, 0, 0>>, <<97, 0, 0, 120>>,
     <<0, 0, 5>>, <<97, 0, 0, 0, 7>>}

ChunkVariants == {"plain", "badlen", "badcrc", "badtype", "cut"}

\* the bytes of a chunk, then damaged per variant
ChunkInput(chunk_type, data, variant) ==
    Let(MkChunk(chunk_type, data), LAMBDA whole :
      CASE variant = "plain" -> whole
        [] variant = "badlen" -> [whole EXCEPT ![4] = (@ + 3) % 256]
        [] variant = "badcrc" -> [whole EXCEPT ![Len(whole)] = (@ + 1) % 256]
        [] variant = "badtype" -> [whole EXCEPT ![5] = 49]
        [] variant = "cut" -> SubSeq(whole, 1, 11))

ChunkInputs ==
    {ChunkInput(t, d, v) : t \in ChunkTypes, d \in ChunkDatas, v \in ChunkVariants}

InitChunk ==
    /\ pc = "chunk_load"
    /\ build \in {"debug", "release"}
    /\ input \in ChunkInputs
    /\ raw = NotRun /\ rawMeta = NotRun /\ rawOut = NotRun
    /\ icon = NotRun /\ meta = NotRun /\ saved = NotRun
    /\ reMeta = NotRun /\ reIcon = NotRun
    /\ query = None /\ got = NotRun
    /\ withZtxt = TRUE
    /\ rawChunk = NotRun /\ chunkOut = NotRun /\ ztxtOut = NotRun /\ walk = None

\* RawGenericChunk::load(&mut &*input)
ChunkLoad ==
    /\ pc = "chunk_load"
    /\ rawChunk' = RawGenericChunk_load(input)
    /\ pc' = "chunk_save"
    /\ UNCHANGED <<build, input, raw, rawMeta, rawOut, icon, meta, saved, reMeta, reIcon,
                   query, got, withZtxt, chunkOut, ztxtOut, walk>>

\* rawChunk.save(&mut vec)
ChunkSave ==
    /\ pc = "chunk_save"
    /\ IsOk(rawChunk)
    /\ chunkOut' = Ok(RawGenericChunk_save(rawChunk.val))
    /\ pc' = "ztxt_save"
    /\ UNCHANGED <<build, input, raw, rawMeta, rawOut, icon, meta, saved, reMeta, reIcon,
                   query, got, withZtxt, rawChunk, ztxtOut, walk>>

\* RawZtxtChunk::try_from(rawChunk)?.save(&mut vec)
ZtxtSave ==
    /\ pc = "ztxt_save"
    /\ IsOk(rawChunk)
    /\ ztxtOut' = Then(RawZtxtChunk_try_from(rawChunk.val),
                       LAMBDA z : Ok(RawZtxtChunk_save(z)))
    /\ pc' = "chunk_done"
    /\ UNCHANGED <<build, input, raw, rawMeta, rawOut, icon, meta, saved, reMeta, reIcon,
                   query, got, withZtxt, rawChunk, chunkOut, walk>>

NextChunk == ChunkLoad \/ ChunkSave \/ ZtxtSave

SpecChunk == InitChunk /\ [][NextChunk]_vars

EndAt(text) ==
    IF HasLine(text, END_DMI)
    THEN CHOOSE i \in 1..Len(text) : text[i] = END_DMI /\ \A j \in 1..(i - 1) : text[j] # END_DMI
    ELSE Len(text) + 1

\* the lines from line 5 up to the exact trailer that do not start with a tab
UntabbedLines(text) == {i \in 5..(EndAt(text) - 1) : ~starts_with(text[i], TAB)}

\* the block boundaries of the manifest text against the loaded states
BlockBoundaries(text, states) ==
    /\ Len(states) = Cardinality(UntabbedLines(text))
    /\ \A k \in 1..Len(states) :
         states[k].unknown_settings # None =>
           \A key \in DOMAIN Unwrap(states[k].unknown_settings) : starts_with(key, TAB)
    /\ \A i \in 5..(EndAt(text) - 1) :
         starts_with(text[i], KEY_CUSTOM \o EQ) =>
           Let(Cardinality({j \in UntabbedLines(text) : j < i}), LAMBDA k :
             /\ k \in 1..Len(states)
             /\ states[k].unknown_settings # None
             /\ KEY_CUSTOM \in DOMAIN Unwrap(states[k].unknown_settings)
             /\ KEY_CUSTOM \o EQ \o Unwrap(states[k].unknown_settings)[KEY_CUSTOM] = text[i])

\* C23: manifest block boundaries: parsing ends only at the line that is
\* exactly "# END DMI"; every line before it that does not start with a tab
\* begins a state, so a loaded icon has one state per such line; a state's
\* attributes come from tab-prefixed lines only; and a tab-prefixed line
\* with an unknown key is consumed as an attribute of the state whose block
\* it is in, whatever its value holds.
C23_BlockBoundaries ==
    (IsOk(icon) /\ input # <<>>) =>
      Let(ManifestOf(input), LAMBDA text : BlockBoundaries(text, icon.val.states))

\* every line from line 5 on is the trailer, a state line, or a tab-prefixed
\* line that holds neither the trailer text nor the state-line text
PlainManifest(text) ==
    \A i \in 5..Len(text) :
      \/ text[i] = END_DMI
      \/ starts_with(text[i], STATE_EQ_QUOTE)
      \/ /\ starts_with(text[i], TAB)
         /\ ~contains(text[i], END_DMI)
         /\ ~contains(text[i], STATE_EQ_QUOTE)

\* the part of C23 the code keeps: the same on plain manifests
C23_OnPlainManifests ==
    (IsOk(icon) /\ input # <<>>) =>
      Let(ManifestOf(input), LAMBDA text :
        PlainManifest(text) => BlockBoundaries(text, icon.val.states))

\* a value that holds the trailer text ends the parsing: the attribute is
\* dropped together with every state after it
C23_TrailerInValue ==
    (IsOk(icon) /\ input # <<>>) =>
      Let(ManifestOf(input), LAMBDA text :
        HasLine(text, KEY_CUSTOM \o EQ \o END_DMI) =>
          Len(icon.val.states) = Cardinality(UntabbedLines(text)))

\* the text of a line behind its first " = "
ValueOf(line) == SubSeq(line, FindPat(line, EQ, 1) + Len(EQ), Len(line))

\* the lines on which quotes are not allowed: version, width, height and
\* the tab-prefixed lines of the state blocks
UnquotedLines(text) ==
    {i \in 2..Len(text) :
       /\ contains(text[i], EQ)
       /\ ~starts_with(text[i], KEY_STATE)
       /\ (i <= 4 \/ starts_with(text[i], TAB))}

HasByte(s, bytes) == \E i \in 1..Len(s) : s[i] \in bytes

\* r, the result of a load of the input, is the error the value demands
UnquotedRejected(r, text) ==
    \A i \in UnquotedLines(text) :
      /\ HasByte(ValueOf(text[i]), {92, 34}) => (IsErr(r) /\ r.kind = "Generic")
      /\ (~HasByte(ValueOf(text[i]), {92, 34}) /\ HasByte(ValueOf(text[i]), {9, 61, 32})) =>
           (IsErr(r) /\ r.kind = "BlockEntry")

\* C25: on the manifest lines where quotes are not allowed (version, width,
\* height, state attribute lines) a value with a backslash or a double
\* quote makes Icon::load and Icon::load_meta fail with a Generic error, and
\* a value with a tab, an equals sign or a further space makes them fail
\* with a BlockEntry error.
C25_UnquotedValues ==
    (input # <<>> /\ icon # NotRun /\ ZtxtBeforeIdat(input, 8)) =>
      Let(ManifestOf(input), LAMBDA text :
        /\ UnquotedRejected(icon, text)
        /\ meta # NotRun => UnquotedRejected(meta, text))

(***************************************************************************)
(* lib.rs: the loops of RawDmi::load and RawDmi::load_meta, one iteration  *)
(* at a time                                                               *)
(***************************************************************************)
\* an iteration that goes on with the locals w, or ends the call with r
WalkOn(w) == [walk |-> w, result |-> NotRun]
WalkEnd(w, r) == [walk |-> w, result |-> r]

\* RawDmi::load up to its loop: the locals at the loop's entry.  before is
\* the index at which the last iteration that moved on had started.
RawDmi_load_begin(dmi_bytes) ==
    IF Len(dmi_bytes) < 72
    THEN Err("Generic", "Supplied reader contained fewer bytes than the required 72")
    ELSE IF Slice(dmi_bytes, 0, 8) # PNG_HEADER
    THEN Err("Generic", "PNG header mismatch")
    ELSE Ok([fn |-> "load", index |-> 8, before |-> None, acc |-> LoadLocals])

\* one iteration of the loop of RawDmi::load
RawDmi_load_iteration(dmi_bytes, w) ==
    IF w.index + 12 > Len(dmi_bytes)
    THEN WalkEnd([w EXCEPT !.before = None],
                 Err("Generic", "Buffer end reached without finding an IEND chunk"))
    ELSE Let(from_be_bytes(Slice(dmi_bytes, w.index, w.index + 4)), LAMBDA chunk_data_length :
      IF w.index + 12 + chunk_data_length > Len(dmi_bytes)
      THEN WalkEnd([w EXCEPT !.before = None], Panic("slice index out of range"))
      ELSE
        Let(RawGenericChunk_load(Slice(dmi_bytes, w.index, w.index + 12 + chunk_data_length)),
          LAMBDA loaded :
            IF ~IsOk(loaded) THEN WalkEnd([w EXCEPT !.before = None], loaded)
            ELSE
              Let([w EXCEPT !.before = Some(w.index),
                            !.index = w.index + 12 + chunk_data_length], LAMBDA moved :
              Let(loaded.val, LAMBDA raw_chunk :
                CASE raw_chunk.chunk_type = IHDR_TYPE ->
                       WalkOn([moved EXCEPT !.acc.chunk_ihdr = Some(raw_chunk)])
                  [] raw_chunk.chunk_type = ZTXT_TYPE ->
                       Let(RawZtxtChunk_try_from(raw_chunk), LAMBDA z :
                         IF IsOk(z) THEN WalkOn([moved EXCEPT !.acc.chunk_ztxt = Some(z.val)])
                         ELSE WalkEnd(moved, z))
                  [] raw_chunk.chunk_type = PLTE_TYPE ->
                       WalkOn([moved EXCEPT !.acc.chunk_plte = Some(raw_chunk)])
                  [] raw_chunk.chunk_type = IDAT_TYPE ->
                       WalkOn([moved EXCEPT !.acc.chunks_idat = Append(@, raw_chunk)])
                  [] raw_chunk.chunk_type = IEND_TYPE ->
                       Let(RawIendChunk_try_from(raw_chunk), LAMBDA e :
                         IF IsOk(e)
                         THEN WalkEnd(moved,
                                      RawDmi_finish([moved.acc EXCEPT !.chunk_iend = Some(e.val)]))
                         ELSE WalkEnd(moved, e))
                  [] OTHER ->
                       WalkOn([moved EXCEPT !.acc.other_chunks = Append(@, raw_chunk)])))))

\* RawDmi::load_meta up to its loop, when the first read yields
\* dmi_bytes_read bytes.  header_read and data_read say up to which offset
\* the last chunk header and the zTXt data were read from the buffer, and how
\* many bytes of the source the buffer held then; ensured describes the last
\* call of ensure_buffered_bytes that returned Ok (the cursor's position
\* before and after it, and the length asked for); first_read keeps the
\* amount of the first read.
RawDmi_load_meta_begin(source, dmi_bytes_read) ==
    Let(SubSeq(source, 1, dmi_bytes_read) \o Zeros(ASSUMED_ZTXT_MAX - dmi_bytes_read),
      LAMBDA dmi_bytes :
        IF dmi_bytes_read < 72
        THEN Err("Generic", "Supplied reader contained fewer bytes than the required 72")
        ELSE IF Slice(dmi_bytes, 0, 8) # PNG_HEADER
        THEN Err("Generic", "PNG header mismatch")
        ELSE IF Slice(dmi_bytes, 8, 16) # IHDR_HEADER
        THEN Err("Generic", "IHDR chunk is not in the correct location")
        ELSE Then(RawGenericChunk_load(Slice(dmi_bytes, 8, 33)), LAMBDA chunk_ihdr :
               Ok([fn |-> "load_meta", buffered_bytes |-> dmi_bytes, position |-> 33,
                   before |-> None, source_amount_read |-> dmi_bytes_read,
                   first_read |-> dmi_bytes_read,
                   chunk_ihdr |-> chunk_ihdr, ensured |-> None,
                   header_read |-> [to |-> 33, have |-> dmi_bytes_read],
                   data_read |-> None])))

\* the locals after a call of ensure_buffered_bytes that returned e
Ensured(at, e, additional_length_required) ==
    [at EXCEPT !.buffered_bytes = e.buffered_bytes,
               !.source_amount_read = e.source_amount_read,
               !.position = e.position,
               !.ensured = Some([original_position |-> at.position,
                                 position |-> e.position,
                                 additional_length_required |-> additional_length_required])]

\* one iteration of the loop of RawDmi::load_meta
RawDmi_load_meta_iteration(source, w) ==
    IF w.position + 8 > Len(w.buffered_bytes)
    THEN WalkEnd([w EXCEPT !.before = None, !.ensured = None],
                 Err("Io", "read_exact: failed to fill whole buffer"))
    ELSE
      Let(Slice(w.buffered_bytes, w.position, w.position + 8), LAMBDA chunk_header_full :
      Let(from_be_bytes(SubSeq(chunk_header_full, 1, 4)), LAMBDA chunk_len :
      Let([w EXCEPT !.before = Some(w.position), !.position = w.position + 8,
                    !.ensured = None,
                    !.header_read = [to |-> w.position + 8, have |-> w.source_amount_read]],
        LAMBDA at :
          IF SubSeq(chunk_header_full, 5, 8) \in {IDAT_TYPE, IEND_TYPE}
          THEN WalkEnd(at, Err("Generic",
                               "zTXt chunk was not found or is after the first IDAT chunk"))
          ELSE IF SubSeq(chunk_header_full, 5, 8) # ZTXT_TYPE
          THEN Let(ensure_buffered_bytes(at.buffered_bytes, at.position, source,
                                         at.source_amount_read, chunk_len + 12), LAMBDA e :
                 IF ~IsOk(e) THEN WalkEnd(at, e)
                 ELSE WalkOn([Ensured(at, e.val, chunk_len + 12)
                                EXCEPT !.position = @ + chunk_len + 4]))
          ELSE Let(ensure_buffered_bytes(at.buffered_bytes, at.position, source,
                                         at.source_amount_read, chunk_len + 4), LAMBDA e :
                 IF ~IsOk(e) THEN WalkEnd(at, e)
                 ELSE Let(Ensured(at, e.val, chunk_len + 4), LAMBDA topped :
                   IF topped.position + chunk_len + 4 > Len(topped.buffered_bytes)
                   THEN WalkEnd(topped, Err("Io", "read_exact: failed to fill whole buffer"))
                   ELSE WalkEnd([topped EXCEPT
                                   !.position = @ + chunk_len + 4,
                                   !.data_read = Some([to |-> topped.position + chunk_len + 4,
                                                       have |-> topped.source_amount_read])],
                          Then(RawGenericChunk_load(
                                 chunk_header_full
                                   \o Slice(topped.buffered_bytes, topped.position,
                                            topped.position + chunk_len + 4)),
                            LAMBDA raw_chunk :
                              Then(RawZtxtChunk_try_from(raw_chunk), LAMBDA z :
                                Ok([chunk_ihdr |-> w.chunk_ihdr, chunk_ztxt |-> z])))))))))

(***************************************************************************)
(* Specification SpecWalk: the two chunk walkers, iteration by iteration   *)
(***************************************************************************)
WalkLayouts ==
    {<<"IHDR", "zTXt", "IDAT">>, <<"IHDR", "tEXt", "zTXt">>, <<"IHDR", "PLTE", "IDAT">>,
     <<"IHDR", "IDAT", "zTXt">>, <<"zTXt", "IHDR", "IDAT">>}

\* a tEXt chunk of n data bytes
BigText(n) == MkChunk(TEXT_TYPE, [i \in 1..n |-> 97])

\* an IDAT chunk of m data bytes
BigIdat(m) == MkChunk(IDAT_TYPE, Zeros(m))

\* IHDR, a tEXt chunk of n data bytes, zTXt, an IDAT chunk of m data bytes:
\* with n = 447 the tEXt chunk and the next header end at offset 500, with
\* n = 448 one byte later
BigTextStream(n, m) ==
    PNG_HEADER \o KindChunk("IHDR", 1) \o BigText(n) \o KindChunk("zTXt", 2)
    \o BigIdat(m) \o IendBytes

\* IHDR, a zTXt chunk of a manifest of n bytes, an IDAT chunk of m data bytes
BigZtxtStream(n, m) ==
    PNG_HEADER \o KindChunk("IHDR", 1)
    \o RawZtxtChunk_save(create_ztxt_chunk([i \in 1..n |-> 97]))
    \o BigIdat(m) \o IendBytes

WalkInputs ==
    {RawInput(l, v) : l \in WalkLayouts, v \in Variants}
    \cup {BigTextStream(n, m) : n \in {447, 448}, m \in {16, 440}}
    \cup {BigZtxtStream(n, m) : n \in {420, 440}, m \in {16, 440}}

\* what the first read of load_meta may yield: the whole prefetch (a File,
\* a Cursor), or less (Read::read may return fewer bytes than asked for)
FirstReads(source) == {Min(k, Len(source)) : k \in {72, 100, ASSUMED_ZTXT_MAX}}

InitWalk ==
    /\ pc = "walk_load"
    /\ build \in {"debug", "release"}
    /\ input \in WalkInputs
    /\ raw = NotRun /\ rawMeta = NotRun /\ rawOut = NotRun
    /\ icon = NotRun /\ meta = NotRun /\ saved = NotRun
    /\ reMeta = NotRun /\ reIcon = NotRun
    /\ query = None /\ got = NotRun
    /\ withZtxt = TRUE
    /\ rawChunk = NotRun /\ chunkOut = NotRun /\ ztxtOut = NotRun /\ walk = None

\* RawDmi::load(&input[..]) up to the entry of its loop
LoadBegin ==
    /\ pc = "walk_load"
    /\ Let(RawDmi_load_begin(input), LAMBDA r :
         IF IsOk(r)
         THEN walk' = r.val /\ raw' = raw /\ pc' = "load_loop"
         ELSE walk' = walk /\ raw' = r /\ pc' = "walk_meta")
    /\ UNCHANGED <<build, input, rawMeta, rawOut, icon, meta, saved, reMeta, reIcon,
                   query, got, withZtxt, rawChunk, chunkOut, ztxtOut>>

\* one iteration of the loop of RawDmi::load
LoadIteration ==
    /\ pc = "load_loop"
    /\ Let(RawDmi_load_iteration(input, walk), LAMBDA it :
         /\ walk' = it.walk
         /\ raw' = it.result
         /\ pc' = IF it.result = NotRun THEN "load_loop" ELSE "walk_meta")
    /\ UNCHANGED <<build, input, rawMeta, rawOut, icon, meta, saved, reMeta, reIcon,
                   query, got, withZtxt, rawChunk, chunkOut, ztxtOut>>

\* RawDmi::load_meta(reader over input) up to the entry of its loop
LoadMetaBegin ==
    /\ pc = "walk_meta"
    /\ \E dmi_bytes_read \in FirstReads(input) :
         Let(RawDmi_load_meta_begin(input, dmi_bytes_read), LAMBDA r :
           IF IsOk(r)
           THEN walk' = r.val /\ rawMeta' = rawMeta /\ pc' = "meta_loop"
           ELSE walk' = None /\ rawMeta' = r /\ pc' = "walk_done")
    /\ UNCHANGED <<build, input, raw, rawOut, icon, meta, saved, reMeta, reIcon,
                   query, got, withZtxt, rawChunk, chunkOut, ztxtOut>>

\* one iteration of the loop of RawDmi::load_meta
LoadMetaIteration ==
    /\ pc = "meta_loop"
    /\ Let(RawDmi_load_meta_iteration(input, walk), LAMBDA it :
         /\ walk' = it.walk
         /\ rawMeta' = it.result
         /\ pc' = IF it.result = NotRun THEN "meta_loop" ELSE "walk_done")
    /\ UNCHANGED <<build, input, raw, rawOut, icon, meta, saved, reMeta, reIcon,
                   query, got, withZtxt, rawChunk, chunkOut, ztxtOut>>

NextWalk == LoadBegin \/ LoadIteration \/ LoadMetaBegin \/ LoadMetaIteration

SpecWalk == InitWalk /\ [][NextWalk]_vars

\* the walkers taken step by step end as the walkers taken whole
WalkAgrees ==
    /\ raw # NotRun => raw = RawDmi_load(input)
    /\ (rawMeta # NotRun
          /\ (walk = None \/ walk.first_read = Min(ASSUMED_ZTXT_MAX, Len(input))))
         => rawMeta = RawDmi_load_meta(input)

(***************************************************************************)
(* Properties of the chunk walkers                                         *)
(***************************************************************************)
\* from offset index on, well-formed chunks other than IDAT and IEND lead to
\* a well-formed zTXt chunk, all of them wholly inside the stream
RECURSIVE LeadsToZtxt(_, _)
LeadsToZtxt(bytes, index) ==
    /\ index + 12 <= Len(bytes)
    /\ Let(from_be_bytes(Slice(bytes, index, index + 4)), LAMBDA n :
         /\ index + 12 + n <= Len(bytes)
         /\ Slice(bytes, index + 4, index + 8) \notin {IDAT_TYPE, IEND_TYPE}
         /\ Let(RawGenericChunk_load(Slice(bytes, index, index + 12 + n)), LAMBDA c :
              /\ IsOk(c)
              /\ IF c.val.chunk_type = ZTXT_TYPE
                 THEN IsOk(RawZtxtChunk_try_from(c.val))
                 ELSE LeadsToZtxt(bytes, index + 12 + n)))

\* the stream is well-formed up to and including a zTXt chunk that precedes
\* the first IDAT: signature, a well-formed IHDR of 13 data bytes, then
\* chunks leading to the zTXt
WellFormedToZtxt(bytes) ==
    /\ Len(bytes) >= 72
    /\ Slice(bytes, 0, 8) = PNG_HEADER
    /\ Slice(bytes, 8, 16) = IHDR_HEADER
    /\ IsOk(RawGenericChunk_load(Slice(bytes, 8, 33)))
    /\ LeadsToZtxt(bytes, 33)

\* C26: RawDmi::load_meta succeeds on every source that is well-formed up
\* to and including a zTXt chunk preceding the first IDAT, whatever the
\* chunk lengths are relative to the 500-byte prefetch and however few
\* bytes follow: a top-up does not fail when the source holds the bytes the
\* skip or read needs.  Stated for readers whose first read fills the
\* prefetch as far as the source allows.
C26_PrefetchTopUp ==
    (rawMeta # NotRun /\ walk # None
       /\ walk.first_read = Min(ASSUMED_ZTXT_MAX, Len(input))
       /\ WellFormedToZtxt(input)) =>
      IsOk(rawMeta)

\* the same for the sources in which the chunks up to and including the
\* zTXt end inside the prefetch: the part of C26 the code keeps
C26_InsidePrefetch ==
    (rawMeta # NotRun /\ walk # None
       /\ walk.first_read = Min(ASSUMED_ZTXT_MAX, Len(input))
       /\ WellFormedToZtxt(input)
       /\ walk.ensured # None
       /\ Unwrap(walk.ensured).original_position
            + Unwrap(walk.ensured).additional_length_required <= walk.first_read) =>
      IsOk(rawMeta)

(***************************************************************************)
(* Properties of Icon::save as a function                                  *)
(***************************************************************************)
\* C27: Icon::save is deterministic: the bytes written are determined by
\* the Icon value, so two calls on equal Icons write the same bytes, also
\* when a state holds two or more unknown_settings entries: whatever order
\* the map hands its entries out in, the outcome is the one that was saved.
C27_SaveDeterministic ==
    (IsOk(icon) /\ input = <<>> /\ saved # NotRun) =>
      \A rev \in BOOLEAN : Icon_save(build, icon.val, rev) = saved

\* the same for the icons whose states hold at most one unknown setting
C27_UpToOneUnknown ==
    (IsOk(icon) /\ input = <<>> /\ saved # NotRun
       /\ \A k \in 1..Len(icon.val.states) :
            icon.val.states[k].unknown_settings # None =>
              Cardinality(DOMAIN Unwrap(icon.val.states[k].unknown_settings)) <= 1) =>
      \A rev \in BOOLEAN : Icon_save(build, icon.val, rev) = saved

(***************************************************************************)
(* Totality and progress of the chunk walkers                              *)
(***************************************************************************)
\* an iteration that went on to the next moved the read position on by at
\* least 12 bytes in RawDmi::load and at least 8 in RawDmi::load_meta
WalkAdvances ==
    (walk # None /\ walk.before # None) =>
      IF walk.fn = "load"
      THEN walk.index >= Unwrap(walk.before) + 12 /\ walk.index <= Len(input)
      ELSE walk.position >= Unwrap(walk.before) + 8
           /\ walk.position <= Len(walk.buffered_bytes)

\* C28: on every finite byte input RawDmi::load and RawDmi::load_meta
\* return Ok or Err (no panic, no access out of bounds, in particular when
\* a chunk states a data_length beyond the end of the input), and every
\* loop iteration moves the read position on, by at least 12 bytes in load
\* and at least 8 in load_meta.
C28_WalkersTotal ==
    /\ raw.tag \in {"NotRun", "Ok", "Err"}
    /\ rawMeta.tag \in {"NotRun", "Ok", "Err"}
    /\ WalkAdvances

\* the part of C28 the code keeps: load_meta returns Ok or Err, and both
\* loops move on
C28_MetaTotal ==
    /\ rawMeta.tag \in {"NotRun", "Ok", "Err"}
    /\ WalkAdvances

(***************************************************************************)
(* The prefetch buffer of RawDmi::load_meta                                *)
(***************************************************************************)
\* C30: in RawDmi::load_meta, after every call of ensure_buffered_bytes
\* that returns Ok the cursor is where it was before the call, the first
\* source_amount_read bytes of the buffer are the first source_amount_read
\* bytes of the source, and position + additional_length_required is at
\* most source_amount_read; so no chunk header and no chunk data is read
\* from buffer bytes that did not come from the source, such as the zero
\* padding behind a short first read.
C30_PrefetchInvariant ==
    (walk # None /\ walk.fn = "load_meta") =>
      /\ walk.source_amount_read <= Len(input)
      /\ walk.source_amount_read <= Len(walk.buffered_bytes)
      /\ SubSeq(walk.buffered_bytes, 1, walk.source_amount_read)
           = SubSeq(input, 1, walk.source_amount_read)
      /\ walk.ensured # None =>
           /\ Unwrap(walk.ensured).position = Unwrap(walk.ensured).original_position
           /\ Unwrap(walk.ensured).original_position
                + Unwrap(walk.ensured).additional_length_required <= walk.source_amount_read
      /\ walk.header_read.to <= walk.header_read.have
      /\ walk.data_read # None => Unwrap(walk.data_read).to <= Unwrap(walk.data_read).have

\* after a short first read a top-up brought in the rest of a zTXt chunk,
\* which was then read and accepted
C30_Witness ==
    /\ walk # None /\ walk.fn = "load_meta"
    /\ walk.first_read < Min(ASSUMED_ZTXT_MAX, Len(input))
    /\ walk.ensured # None
    /\ walk.source_amount_read > walk.first_read
    /\ walk.data_read # None
    /\ IsOk(rawMeta)

(***************************************************************************)
(* IconState::get_image and the order of the tiles of a state              *)
(***************************************************************************)
\* the lookup q on state self is one the tile layout answers: dirs is 1, 4
\* or 8, the state has its dirs * frames tiles, 1 <= frame <= frames and
\* dir is in the valid set
InLayout(self, q) ==
    /\ self.dirs \in {1, 4, 8}
    /\ Len(self.images) = self.dirs * self.frames
    /\ 1 <= q.frame /\ q.frame <= self.frames
    /\ q.dir \in valid_set(self.dirs)

\* C29: on a state whose tiles are stored frame after frame and, inside a
\* frame, direction after direction (the order Icon::load crops them in),
\* with dirs in {1, 4, 8}, 1 <= frame <= frames and dir in the valid set,
\* get_image(dir, frame) returns the tile at position
\* (frame - 1) * dirs + dir_ordinal, and no other valid (dir, frame) returns
\* the same tile.
C29_TileLayout ==
    got # NotRun =>
      Let(icon.val.states[Unwrap(query).state], LAMBDA self :
      Let(Unwrap(query), LAMBDA q :
        InLayout(self, q) =>
          /\ got = Ok(self.images[(q.frame - 1) * self.dirs + dir_ordinal(q.dir) + 1])
          /\ \A dir \in valid_set(self.dirs), frame \in 1..self.frames :
               <<dir, frame>> # <<q.dir, q.frame>> =>
                 IconState_get_image(build, self, dir, frame) # got))

\* the same for the lookups of the first frame and for the states of one
\* direction, where (dir_ordinal + 1) * frame - 1 is the layout's position
C29_FirstFrameOrOneDir ==
    got # NotRun =>
      Let(icon.val.states[Unwrap(query).state], LAMBDA self :
      Let(Unwrap(query), LAMBDA q :
        (InLayout(self, q) /\ (q.frame = 1 \/ self.dirs = 1)) =>
          got = Ok(self.images[(q.frame - 1) * self.dirs + dir_ordinal(q.dir) + 1])))

====
